---- MODULE Spec2Model ----
(***************************************************************************)
(* pgEdge RAG server: the streaming query path (HTTP handler, orchestrator *)
(* goroutine, completion-provider goroutine and the request context), the  *)
(* BM25 index an orchestrator shares between its requests, the filter      *)
(* compiler, and the non-streaming query handler.                          *)
(***************************************************************************)
EXTENDS Integers, Sequences, FiniteSets, TLC

(***************************************************************************)
(* Bounds of the model.                                                    *)
(***************************************************************************)
MaxChunks == 2
MaxSources == 2
NumRequests == 2
MaxDocs == 2
MaxConds == 2
MaxResults == 2
MaxRanked == 2
MaxPipelines == 2
NumCallers == 2
MaxCloseCalls == 2

(***************************************************************************)
(* Program constants.                                                      *)
(***************************************************************************)
ErrChanCapUnbuffered == 0
\* errChan := make(chan error, 1)
ErrChanCap == 1
\* the providers' errChan := make(chan error, 1)
LlmErrChanCap == 1

NoErr == ""
ErrEmbedding == "failed to generate embedding"
ErrNoDocuments == "no documents found for query"
ErrCanceled == "context canceled"
ErrProviderRequest == "provider request failed"
ErrStreamRead == "stream read error"
ErrVectorSearch == "vector search failed"

VARIABLES
    \* ---- streaming request ----
    ctxDone,        \* the request context is cancelled
    hPc,            \* handleStreamingQuery: position
    hExit,          \* how handleStreamingQuery returned
    events,         \* SSE events written to the client, in write order
    oPc,            \* ExecuteStream goroutine: position
    oChunk,         \* the chunk the forward loop holds
    oErr,           \* the error the goroutine is about to send on errChan
    oSrc,           \* index of the table source being searched
    nSources,       \* number of table sources of the pipeline
    allResults,     \* number of results pooled so far
    errChan,        \* orchestrator's errChan buffer
    errCloses,      \* number of close(errChan) executed
    chunkCloses,    \* number of close(chunkChan) executed
    pPc,            \* CompleteStream goroutine: position
    pScript,        \* the chunks the upstream produces, in order
    pPos,           \* index of the next chunk of pScript
    pErr,           \* the error the provider is about to send
    llmErrChan,     \* provider's errChan buffer
    llmErrCloses,   \* number of close(errChan) executed by the provider
    llmChunkCloses, \* number of close(chunkChan) executed by the provider
    \* ---- concurrent requests on one orchestrator's BM25 index ----
    idxDocs,        \* Index.docs: document id -> content
    idxTotalDocs,   \* Index.totalDocs
    rPc,            \* per request: position in Execute's loop body
    rSrc,           \* per request: index of the table source in process
    rDocs,          \* per request: docs returned by FetchDocuments
    rPending,       \* per request: ids AddDocuments has still to add
    rScored,        \* per request: the documents its Search scored
    \* ---- a call of the filter compiler ----
    fPc,            \* which query is being built: "input", "vector", "fetch"
    fCfg,           \* the table source's config filter
    fReq,           \* the request's filter
    fStart,         \* startParamIndex of the call
    fOut,           \* what buildFilterClause returned
    fArgs,          \* the arguments handed to pool.Query
    \* ---- a query request in Server.handlePipeline ----
    qPc,            \* handlePipeline: position
    qReq,           \* the HTTP request
    qResp,          \* status line and error body of the response
    xPc,            \* Orchestrator.Execute: position
    xSrc,           \* Execute: index of the table source being searched
    xResults,       \* Execute: number of results pooled so far
    xErr,           \* Execute: the error it returns
    \* ---- Execute's steps 3 and 4: deduplicate, then pack the context ----
    packPc,         \* "input", "deduplicated", "packed"
    poolResults,    \* allResults: the results pooled from the sources
    topN,           \* the effective topN of the request
    tokenBudget,    \* o.tokenBudget
    uniqueResults,  \* what deduplicateResults returned
    contextDocs,    \* what buildContext returned
    \* ---- database.HybridSearch of one table source ----
    fusePc,         \* "input", "fused"
    vectorResults,  \* what Pool.VectorSearch returned
    bm25Results,    \* bm25SearchResults: what Index.Search returned
    fuseTopN,       \* topN of the call
    rrfResults,     \* what ReciprocalRankFusion returned
    hybridResults,   \* what HybridSearch returned
    \* ---- configuration loading and the pipeline manager ----
    cfgFile,        \* the YAML configuration file
    mCfg,           \* the *config.Config that config.Load returned
    mPc,            \* main / NewManagerWithLogger: position
    mIdx,           \* index of the pipeline createPipeline is working on
    pipelines,      \* Manager.pipelines: name -> *Pipeline
    pools,          \* per database.Pool: was it opened, number of Close
    mu,             \* Manager.mu: the writer and the readers holding it
    cPc,            \* per caller: the Manager method it is inside
    cRet,           \* per caller: what its last call returned
    closeCalls,     \* number of calls of Manager.Close started
    closeReturned,  \* number of calls of Manager.Close that returned
    effective,      \* topN and token budget the last request ran with
    \* ---- API keys of one provider of one pipeline ----
    keyPc,          \* position: "config", "keys", "provider", "done"
    keyWorld,       \* key paths of the file, files on disk, environment
    keyPipeline,    \* Pipeline.APIKeys.<provider> after applyDefaults
    keyLoaded,      \* what LoadRequiredKeys returned for the provider
    keyProvider,    \* the key the provider runs with, or the error
    \* ---- one bm25.Index ----
    bmDocs,         \* Index.docs
    bmDocFreqs,     \* Index.docFreqs
    bmTotalDocs,    \* Index.totalDocs
    bmTotalLen,     \* Index.totalLen
    bmAdded,        \* ids in the order AddDocument was called since Clear
    bmResults,      \* what the last Search returned
    \* ---- a call of Pool.FetchDocumentsByIDs ----
    byPc,           \* "input" or "returned"
    byTable,        \* the table source
    byIds,          \* the ids asked for
    byQueries,      \* number of queries sent to the database
    byOut,          \* the documents and the error returned
    \* ---- run: serving and stopping ----
    shPc,           \* run: position
    shInflight,     \* requests that hold a pipeline from Get and still run
    shClosed,       \* Manager.Close has closed the pools
    shErr           \* the error run returns

streamVars == <<ctxDone, hPc, hExit, events, oPc, oChunk, oErr, oSrc, nSources,
                allResults, errChan, errCloses, chunkCloses, pPc, pScript,
                pPos, pErr, llmErrChan, llmErrCloses, llmChunkCloses>>

indexVars == <<idxDocs, idxTotalDocs, rPc, rSrc, rDocs, rPending, rScored>>

filterVars == <<fPc, fCfg, fReq, fStart, fOut, fArgs>>

queryVars == <<qPc, qReq, qResp, xPc, xSrc, xResults, xErr>>

packVars == <<packPc, poolResults, topN, tokenBudget, uniqueResults,
              contextDocs>>

\* The sub-models that follow the query handler.
fuseVars == <<fusePc, vectorResults, bm25Results, fuseTopN, rrfResults,
              hybridResults>>

mgrVars == <<cfgFile, mCfg, mPc, mIdx, pipelines, pools, mu, cPc, cRet,
             closeCalls, closeReturned, effective>>

keyVars == <<keyPc, keyWorld, keyPipeline, keyLoaded, keyProvider>>

bmVars == <<bmDocs, bmDocFreqs, bmTotalDocs, bmTotalLen, bmAdded, bmResults>>

byVars == <<byPc, byTable, byIds, byQueries, byOut>>

shVars == <<shPc, shInflight, shClosed, shErr>>

moreVars == <<keyVars, bmVars, byVars, shVars>>

restVars == <<packVars, fuseVars, mgrVars, moreVars>>

baseVars == <<streamVars, indexVars, filterVars, queryVars, packVars,
              fuseVars, mgrVars>>

vars == <<streamVars, indexVars, filterVars, queryVars, restVars>>

(***************************************************************************)
(* Data of the streaming path.                                             *)
(***************************************************************************)
Texts == {"This is ", "a streaming response."}

\* llm.StreamChunk: incremental text, and a finish reason on the last one.
LlmChunk(c, f) == [Content |-> c, FinishReason |-> f]

NoChunk == LlmChunk("", "")

TextChunks == {LlmChunk(c, "") : c \in Texts \cup {""}}

FinishChunks == {LlmChunk(c, "stop") : c \in Texts \cup {""}}

SeqsUpTo(S, n) == UNION {[1..k -> S] : k \in 0..n}

\* What an upstream can stream: text deltas, then possibly one chunk that
\* carries the finish reason.
Scripts ==
    SeqsUpTo(TextChunks, MaxChunks) \cup
    {Append(s, f) : s \in SeqsUpTo(TextChunks, MaxChunks - 1), f \in FinishChunks}

\* pipeline.StreamEvent
StreamEvent(t, c, e) == [type |-> t, content |-> c, error |-> e]

ChunkEvent(c) == StreamEvent("chunk", c, "")

DoneEvent == StreamEvent("done", "", "")

ErrorEvent(e) == StreamEvent("error", "", e)

\* The events handleStreamingQuery writes once chunkChan is closed.
ClosedEventsNoDone(err) ==
    IF err # NoErr THEN <<ErrorEvent(err)>> ELSE <<>>

ClosedEvents(err) ==
    IF err # NoErr THEN <<ErrorEvent(err), DoneEvent>> ELSE <<DoneEvent>>

\* A receive from an error channel: the buffered value, or nil when closed.
CanRecv(ch, closes) == Len(ch) > 0 \/ closes > 0

RecvVal(ch) == IF Len(ch) > 0 THEN Head(ch) ELSE NoErr

(***************************************************************************)
(* The filter compiler (internal/database/filter.go)                       *)
(***************************************************************************)
\* SQL text is modelled as the sequence of its pieces: keywords and
\* punctuation, sanitized identifiers, placeholders $n, raw config SQL, and
\* (in no code path of the compiler) a literal rendering of a value.
Tok(k, t, n) == [k |-> k, s |-> t, n |-> n]

Kw(t) == Tok("kw", t, 0)

\* pgx.Identifier{column}.Sanitize(): the double-quoted column name.
Ident(column) == Tok("ident", column, 0)

\* fmt.Sprintf("$%d", n)
Placeholder(n) == Tok("ph", "$", n)

RawSql(t) == Tok("raw", t, 0)

Literal(v) == Tok("lit", v, 0)

\* interface{} values of a condition: nil, a scalar, or a list.
NilValue == [kind |-> "nil", items |-> <<>>]

Scalar(v) == [kind |-> "scalar", items |-> <<v>>]

List(vs) == [kind |-> "list", items |-> vs]

\* config.FilterCondition
Cond(column, operator, value) ==
    [Column |-> column, Operator |-> operator, Value |-> value]

\* config.Filter, or a nil *config.Filter
Filter(conds, logic) == [isNil |-> FALSE, Conditions |-> conds, Logic |-> logic]

NoFilter == [isNil |-> TRUE, Conditions |-> <<>>, Logic |-> ""]

\* config.ConfigFilter, or a nil *config.ConfigFilter
ConfigFilter(raw, structured) ==
    [isNil |-> FALSE, RawSQL |-> raw, Structured |-> structured]

NoConfigFilter == [isNil |-> TRUE, RawSQL |-> "", Structured |-> NoFilter]

supportedOperators ==
    {"=", "!=", "<", ">", "<=", ">=", "LIKE", "ILIKE", "IN", "NOT IN",
     "IS NULL", "IS NOT NULL"}

\* strings.ToUpper on the operator and logic strings of the model.
ToUpper(t) ==
    CASE t = "in" -> "IN"
      [] t = "not in" -> "NOT IN"
      [] t = "like" -> "LIKE"
      [] t = "is null" -> "IS NULL"
      [] t = "drop" -> "DROP"
      [] t = "or" -> "OR"
      [] t = "and" -> "AND"
      [] t = "xor" -> "XOR"
      [] OTHER -> t

ErrUnsupportedOperator == "unsupported operator"
ErrInRequiresNonEmpty == "IN operator requires non-empty array"
ErrInRequiresArray == "IN operator requires array value"
ErrRequiresNonNil == "operator requires non-nil value"
ErrInvalidLogic == "invalid logic operator"

\* ValidateOperator
ValidateOperator(operator) ==
    IF ToUpper(operator) \notin supportedOperators
    THEN ErrUnsupportedOperator
    ELSE NoErr

\* ValidateValue
ValidateValue(operator, value) ==
    LET op == ToUpper(operator) IN
    IF op \in {"IS NULL", "IS NOT NULL"} THEN NoErr
    ELSE IF op \in {"IN", "NOT IN"}
         THEN IF value.kind = "list"
              THEN IF Len(value.items) = 0 THEN ErrInRequiresNonEmpty
                   ELSE NoErr
              ELSE ErrInRequiresArray
         ELSE IF value.kind = "nil" THEN ErrRequiresNonNil ELSE NoErr

\* What the compiler functions return: the clause, the arguments, the
\* error, and the parameter index after the call (*paramIndex).
Compiled(sql, args, err, next) ==
    [sql |-> sql, args |-> args, err |-> err, next |-> next]

Failed(err, next) == Compiled(<<>>, <<>>, err, next)

\* strings.Join(parts, sep) over sequences of token sequences.
RECURSIVE Join(_, _)
Join(parts, sep) ==
    IF Len(parts) = 0 THEN <<>>
    ELSE IF Len(parts) = 1 THEN parts[1]
    ELSE parts[1] \o <<sep>> \o Join(Tail(parts), sep)

\* buildCondition with the value written into the SQL text instead of
\* being bound to a placeholder.
buildConditionInline(cond, paramIndex) ==
    LET op == ToUpper(cond.Operator) IN
    IF ValidateOperator(cond.Operator) # NoErr
    THEN Failed(ValidateOperator(cond.Operator), paramIndex)
    ELSE IF ValidateValue(cond.Operator, cond.Value) # NoErr
    THEN Failed(ValidateValue(cond.Operator, cond.Value), paramIndex)
    ELSE IF op \in {"IS NULL", "IS NOT NULL"}
    THEN Compiled(<<Ident(cond.Column), Kw(op)>>, <<>>, NoErr, paramIndex)
    ELSE IF op \in {"IN", "NOT IN"}
    THEN LET n == Len(cond.Value.items) IN
         Compiled(
            <<Ident(cond.Column), Kw(op), Kw("(")>>
               \o Join([i \in 1..n |-> <<Placeholder(paramIndex + i - 1)>>],
                       Kw(", "))
               \o <<Kw(")")>>,
            [i \in 1..n |-> Scalar(cond.Value.items[i])],
            NoErr, paramIndex + n)
    ELSE Compiled(
            <<Ident(cond.Column), Kw(cond.Operator)>>
               \o [i \in 1..Len(cond.Value.items) |->
                     Literal(cond.Value.items[i])],
            <<>>, NoErr, paramIndex)

\* buildCondition
buildCondition(cond, paramIndex) ==
    LET op == ToUpper(cond.Operator) IN
    IF ValidateOperator(cond.Operator) # NoErr
    THEN Failed(ValidateOperator(cond.Operator), paramIndex)
    ELSE IF ValidateValue(cond.Operator, cond.Value) # NoErr
    THEN Failed(ValidateValue(cond.Operator, cond.Value), paramIndex)
    ELSE IF op \in {"IS NULL", "IS NOT NULL"}
    THEN Compiled(<<Ident(cond.Column), Kw(op)>>, <<>>, NoErr, paramIndex)
    ELSE IF op \in {"IN", "NOT IN"}
    THEN LET n == Len(cond.Value.items) IN
         Compiled(
            <<Ident(cond.Column), Kw(op), Kw("(")>>
               \o Join([i \in 1..n |-> <<Placeholder(paramIndex + i - 1)>>],
                       Kw(", "))
               \o <<Kw(")")>>,
            [i \in 1..n |-> Scalar(cond.Value.items[i])],
            NoErr, paramIndex + n)
    ELSE Compiled(
            <<Ident(cond.Column), Kw(cond.Operator), Placeholder(paramIndex)>>,
            <<cond.Value>>, NoErr, paramIndex + 1)

\* The loop of buildFilterFromStruct over filter.Conditions from the i-th
\* on: the clauses and arguments so far, or the first error.
RECURSIVE BuildConditions(_, _, _, _, _)
BuildConditions(conds, i, paramIndex, clauses, args) ==
    IF i > Len(conds)
    THEN [clauses |-> clauses, args |-> args, err |-> NoErr,
          next |-> paramIndex]
    ELSE LET c == buildCondition(conds[i], paramIndex) IN
         IF c.err # NoErr
         THEN [clauses |-> <<>>, args |-> <<>>, err |-> c.err,
               next |-> c.next]
         ELSE BuildConditions(conds, i + 1, c.next,
                              Append(clauses, c.sql), args \o c.args)

\* buildFilterFromStruct
buildFilterFromStruct(filter, paramIndex) ==
    IF filter.isNil \/ Len(filter.Conditions) = 0
    THEN Compiled(<<>>, <<>>, NoErr, paramIndex)
    ELSE LET logic == IF filter.Logic # "" THEN ToUpper(filter.Logic)
                      ELSE "AND"
         IN
         IF logic # "AND" /\ logic # "OR"
         THEN Failed(ErrInvalidLogic, paramIndex)
         ELSE LET b == BuildConditions(filter.Conditions, 1, paramIndex,
                                       <<>>, <<>>)
              IN
              IF b.err # NoErr THEN Failed(b.err, b.next)
              ELSE Compiled(Join(b.clauses, Kw(" " \o logic \o " ")),
                            b.args, NoErr, b.next)

Parens(clause) == <<Kw("(")>> \o clause \o <<Kw(")")>>

\* The end of buildFilterClause.
WhereClause(conditions, args, next) ==
    IF Len(conditions) = 0
    THEN Compiled(<<>>, <<>>, NoErr, next)
    ELSE Compiled(<<Kw(" WHERE ")>> \o Join(conditions, Kw(" AND ")),
                  args, NoErr, next)

\* The part of buildFilterClause for the request filter, after the config
\* filter gave the conditions and arguments so far.
RequestPart(requestFilter, paramIndex, conditions, args) ==
    IF requestFilter.isNil
    THEN WhereClause(conditions, args, paramIndex)
    ELSE LET r == buildFilterFromStruct(requestFilter, paramIndex) IN
         IF r.err # NoErr THEN Failed(r.err, r.next)
         ELSE IF r.sql # <<>>
              THEN WhereClause(Append(conditions, Parens(r.sql)),
                               args \o r.args, r.next)
              ELSE WhereClause(conditions, args, r.next)

\* The part of buildFilterClause for the config filter: raw SQL is taken
\* as it is and binds nothing, a structured filter is compiled.
ConfigPart(configFilter, paramIndex) ==
    IF configFilter.isNil
    THEN [conditions |-> <<>>, args |-> <<>>, err |-> NoErr,
          next |-> paramIndex]
    ELSE IF configFilter.RawSQL # ""
    THEN [conditions |-> <<Parens(<<RawSql(configFilter.RawSQL)>>)>>,
          args |-> <<>>, err |-> NoErr, next |-> paramIndex]
    ELSE IF ~configFilter.Structured.isNil
    THEN LET c == buildFilterFromStruct(configFilter.Structured, paramIndex)
         IN
         [conditions |-> IF c.err = NoErr /\ c.sql # <<>>
                         THEN <<Parens(c.sql)>> ELSE <<>>,
          args |-> c.args, err |-> c.err, next |-> c.next]
    ELSE [conditions |-> <<>>, args |-> <<>>, err |-> NoErr,
          next |-> paramIndex]

\* buildFilterClause with the request filter numbered from startParamIndex
\* again instead of from where the config filter stopped.
buildFilterClauseRestart(configFilter, requestFilter, startParamIndex) ==
    LET c == ConfigPart(configFilter, startParamIndex) IN
    IF c.err # NoErr THEN Failed(c.err, c.next)
    ELSE RequestPart(requestFilter, startParamIndex, c.conditions, c.args)

\* buildFilterClause
buildFilterClause(configFilter, requestFilter, startParamIndex) ==
    LET c == ConfigPart(configFilter, startParamIndex) IN
    IF c.err # NoErr THEN Failed(c.err, c.next)
    ELSE RequestPart(requestFilter, c.next, c.conditions, c.args)

(***************************************************************************)
(* The HTTP query request and its response                                 *)
(***************************************************************************)
\* The status line and error body of a response; no status line written
\* yet.
NoResponse == [status |-> 0, code |-> "", message |-> ""]

Response(status, code, message) ==
    [status |-> status, code |-> code, message |-> message]

QueryFilters ==
    {NoFilter,
     Filter(<<Cond("product", "=", Scalar("v1"))>>, ""),
     Filter(<<Cond("product", "drop", Scalar("v1"))>>, "")}

\* *http.Request as handlePipeline reads it: method, {name} of the path,
\* and the body (its fields matter only when it decodes).
Request(method, name, bodyValid, query, stream, filter) ==
    [method |-> method, name |-> name, bodyValid |-> bodyValid,
     query |-> query, stream |-> stream, filter |-> filter]

HttpRequests ==
    {Request(m, n, FALSE, "", FALSE, NoFilter) :
        m \in {"POST", "GET"}, n \in {"docs", "nope", ""}}
    \cup
    {Request(m, n, TRUE, q, st, f) :
        m \in {"POST", "GET"}, n \in {"docs", "nope", ""},
        q \in {"", "x"}, st \in BOOLEAN, f \in QueryFilters}

\* The requests handlePipeline hands to handleStreamingQuery: without a
\* filter, and with a filter that does not compile.
StreamRequests ==
    {Request("POST", "docs", TRUE, "x", TRUE, f) :
        f \in {NoFilter, Filter(<<Cond("product", "drop", Scalar("v1"))>>, "")}}

\* The manager's pipelines.
PipelineNames == {"docs"}

ErrCompletion == "failed to generate completion"

\* The table sources of the pipeline carry no config filter.
TableFilter == NoConfigFilter

\* How the search of one table source can end: VectorSearch fails (always,
\* when the filter does not compile), FetchDocuments fails, or both
\* succeed and the hybrid results are pooled.
SearchOutcomes(filter) ==
    IF buildFilterClause(TableFilter, filter, 3).err # NoErr
    THEN {"vectorFailed"}
    ELSE {"vectorFailed", "fetchFailed", "hybrid"}

\* handlePipeline up to the dispatch: the response that rejects the
\* request, or NoResponse when the request goes on to the pipeline.
Rejection(req) ==
    IF req.method # "POST"
    THEN Response(405, "METHOD_NOT_ALLOWED", "method not allowed")
    ELSE IF req.name = ""
    THEN Response(400, "INVALID_REQUEST", "pipeline name required")
    ELSE IF req.name \notin PipelineNames
    THEN Response(404, "PIPELINE_NOT_FOUND", "pipeline not found")
    ELSE IF ~req.bodyValid
    THEN Response(400, "INVALID_REQUEST", "invalid request body")
    ELSE IF req.query = ""
    THEN Response(400, "INVALID_REQUEST", "query is required")
    ELSE NoResponse

(***************************************************************************)
(* Initial states                                                          *)
(***************************************************************************)
\* The streaming machinery of a request before handleStreamingQuery runs:
\* no goroutine started, nothing written.
StreamFresh ==
    /\ ctxDone = FALSE
    /\ hExit = "none"
    /\ events = <<>>
    /\ oPc = "idle"
    /\ oChunk = NoChunk
    /\ oErr = NoErr
    /\ oSrc = 1
    /\ nSources \in 0..MaxSources
    /\ allResults = 0
    /\ errChan = <<>>
    /\ errCloses = 0
    /\ chunkCloses = 0
    /\ pPc = "idle"
    /\ pScript \in Scripts
    /\ pPos = 1
    /\ pErr = NoErr
    /\ llmErrChan = <<>>
    /\ llmErrCloses = 0
    /\ llmChunkCloses = 0

\* No request is using the orchestrator's index.
IndexIdle ==
    /\ idxDocs = <<>>
    /\ idxTotalDocs = 0
    /\ rPc = <<>>
    /\ rSrc = <<>>
    /\ rDocs = <<>>
    /\ rPending = <<>>
    /\ rScored = <<>>

\* No query is being built.
FilterIdle ==
    /\ fPc = "idle"
    /\ fCfg = <<>>
    /\ fReq = <<>>
    /\ fStart = 0
    /\ fOut = <<>>
    /\ fArgs = <<>>

\* No request is in handlePipeline.
QueryIdle ==
    /\ qPc = "idle"
    /\ qReq = <<>>
    /\ qResp = NoResponse
    /\ xPc = "idle"
    /\ xSrc = 1
    /\ xResults = 0
    /\ xErr = NoErr

\* No result list is being deduplicated or packed.
PackIdle ==
    /\ packPc = "idle"
    /\ poolResults = <<>>
    /\ topN = 0
    /\ tokenBudget = 0
    /\ uniqueResults = <<>>
    /\ contextDocs = <<>>

\* No lists are being fused.
FuseIdle ==
    /\ fusePc = "idle"
    /\ vectorResults = <<>>
    /\ bm25Results = <<>>
    /\ fuseTopN = 0
    /\ rrfResults = <<>>
    /\ hybridResults = <<>>

\* No configuration is loaded and no manager exists.
MgrIdle ==
    /\ cfgFile = <<>>
    /\ mCfg = <<>>
    /\ mPc = "idle"
    /\ mIdx = 0
    /\ pipelines = <<>>
    /\ pools = <<>>
    /\ mu = <<>>
    /\ cPc = <<>>
    /\ cRet = <<>>
    /\ closeCalls = 0
    /\ closeReturned = 0
    /\ effective = <<>>

\* No API key is being resolved.
KeyIdle ==
    /\ keyPc = "idle"
    /\ keyWorld = <<>>
    /\ keyPipeline = ""
    /\ keyLoaded = <<>>
    /\ keyProvider = <<>>

\* No stand-alone index exists.
BmIdle ==
    /\ bmDocs = <<>>
    /\ bmDocFreqs = <<>>
    /\ bmTotalDocs = 0
    /\ bmTotalLen = 0
    /\ bmAdded = <<>>
    /\ bmResults = <<>>

\* No id-keyed lookup is running.
ByIdle ==
    /\ byPc = "idle"
    /\ byTable = <<>>
    /\ byIds = <<>>
    /\ byQueries = 0
    /\ byOut = <<>>

\* The server process is not modelled.
ShIdle ==
    /\ shPc = "idle"
    /\ shInflight = <<>>
    /\ shClosed = FALSE
    /\ shErr = ""

MoreIdle == KeyIdle /\ BmIdle /\ ByIdle /\ ShIdle

RestIdle == PackIdle /\ FuseIdle /\ MgrIdle /\ MoreIdle

hVars == <<hPc, hExit, events>>
oVars == <<oPc, oChunk, oErr, oSrc, allResults>>
oChans == <<errChan, errCloses, chunkCloses>>
pVars == <<pPc, pPos, pErr>>
pChans == <<llmErrChan, llmErrCloses, llmChunkCloses>>
cfgVars == <<nSources, pScript, indexVars, filterVars, queryVars,
             restVars>>

QueryInit ==
    /\ qPc = "recv"
    /\ qReq \in HttpRequests
    /\ qResp = NoResponse
    /\ xPc = "idle"
    /\ xSrc = 1
    /\ xResults = 0
    /\ xErr = NoErr

\* handlePipeline received a streaming request and is about to call
\* handleStreamingQuery.
StreamDispatched ==
    /\ qPc = "stream"
    /\ qReq \in StreamRequests
    /\ qResp = NoResponse
    /\ xPc = "idle"
    /\ xSrc = 1
    /\ xResults = 0
    /\ xErr = NoErr

StreamInit ==
    /\ hPc = "start"
    /\ StreamFresh
    /\ StreamDispatched
    /\ IndexIdle
    /\ FilterIdle
    /\ RestIdle

(***************************************************************************)
(* The request context.                                                    *)
(***************************************************************************)
\* Client disconnect or server shutdown cancels r.Context().
Cancel ==
    /\ ~ctxDone
    /\ ctxDone' = TRUE
    /\ UNCHANGED <<hVars, oVars, oChans, pVars, pChans, cfgVars>>

(***************************************************************************)
(* Server.handleStreamingQuery                                             *)
(***************************************************************************)
\* Headers and status 200 written and flushed; ExecuteStream makes the
\* channels and starts its goroutine.
HStart ==
    /\ hPc = "start"
    /\ hPc' = "select"
    /\ qResp' = Response(200, "", "text/event-stream")
    /\ oPc' = "embed"
    /\ UNCHANGED <<ctxDone, hExit, events, oChunk, oErr, oSrc, allResults,
                   oChans, pVars, pChans, nSources, pScript, indexVars,
                   filterVars, restVars, qPc, qReq, xPc, xSrc, xResults,
                   xErr>>

\* case chunk, ok := <-chunkChan with ok: the orchestrator's send on the
\* unbuffered chunkChan meets the handler's receive; the handler writes the
\* chunk event.
HRecvChunk ==
    /\ hPc = "select"
    /\ oPc = "send"
    /\ events' = Append(events, ChunkEvent(oChunk.Content))
    /\ oPc' = "recv"
    /\ UNCHANGED <<ctxDone, hPc, hExit, oChunk, oErr, oSrc, allResults,
                   oChans, pVars, pChans, cfgVars>>

\* case chunk, ok := <-chunkChan with !ok.
HClosed ==
    /\ hPc = "select"
    /\ chunkCloses > 0
    /\ hPc' = "readErr"
    /\ UNCHANGED <<ctxDone, hExit, events, oVars, oChans, pVars, pChans,
                   cfgVars>>

\* err := <-errChan, then the closing events, then return.
HReadErr ==
    /\ hPc = "readErr"
    /\ CanRecv(errChan, errCloses)
    /\ events' = events \o ClosedEvents(RecvVal(errChan))
    /\ errChan' = IF Len(errChan) > 0 THEN Tail(errChan) ELSE errChan
    /\ hPc' = "returned"
    /\ hExit' = "closed"
    /\ UNCHANGED <<ctxDone, oVars, errCloses, chunkCloses, pVars, pChans,
                   cfgVars>>

\* case <-r.Context().Done(): return without writing anything.
HCtxDone ==
    /\ hPc = "select"
    /\ ctxDone
    /\ hPc' = "returned"
    /\ hExit' = "cancelled"
    /\ UNCHANGED <<ctxDone, events, oVars, oChans, pVars, pChans, cfgVars>>

Handler == HStart \/ HRecvChunk \/ HClosed \/ HReadErr \/ HCtxDone

(***************************************************************************)
(* Orchestrator.ExecuteStream: the goroutine                               *)
(***************************************************************************)
\* embedding, err := o.embeddingProv.Embed(ctx, req.Query)
OEmbed ==
    /\ oPc = "embed"
    /\ \E ok \in BOOLEAN :
          IF ok
          THEN /\ oPc' = "search"
               /\ oErr' = oErr
          ELSE /\ oPc' = "sendErr"
               /\ oErr' = ErrEmbedding
    /\ UNCHANGED <<ctxDone, hVars, oChunk, oSrc, allResults, oChans, pVars,
                   pChans, cfgVars>>

\* One iteration of the loop over the table sources: a failing vector
\* search skips the source, a failing document fetch keeps the vector
\* results, otherwise the hybrid results are pooled.
OSearchSource ==
    /\ oPc = "search"
    /\ oSrc <= nSources
    /\ \E outcome \in SearchOutcomes(qReq.filter), n \in 0..1 :
          allResults' = IF outcome = "vectorFailed" THEN allResults
                        ELSE allResults + n
    /\ oSrc' = oSrc + 1
    /\ UNCHANGED <<ctxDone, hVars, oPc, oChunk, oErr, oChans, pVars, pChans,
                   cfgVars>>

\* The goroutine going on to the completion whatever the pool holds.
OPackNoCheck ==
    /\ oPc = "search"
    /\ oSrc > nSources
    /\ oPc' = "complete"
    /\ UNCHANGED <<ctxDone, hVars, oChunk, oErr, oSrc, allResults, oChans,
                   pVars, pChans, cfgVars>>

\* After the loop: deduplicate, fail on an empty pool, otherwise build the
\* context and the completion request.
OPack ==
    /\ oPc = "search"
    /\ oSrc > nSources
    /\ IF allResults = 0
       THEN /\ oPc' = "sendErr"
            /\ oErr' = ErrNoDocuments
       ELSE /\ oPc' = "complete"
            /\ oErr' = oErr
    /\ UNCHANGED <<ctxDone, hVars, oChunk, oSrc, allResults, oChans, pVars,
                   pChans, cfgVars>>

\* o.completionProv.CompleteStream(ctx, completionReq), which makes the
\* provider's channels and starts its goroutine.
OComplete ==
    /\ oPc = "complete"
    /\ oPc' = "recv"
    /\ pPc' = "request"
    /\ UNCHANGED <<ctxDone, hVars, oChunk, oErr, oSrc, allResults, oChans,
                   pPos, pErr, pChans, cfgVars>>

\* The pipeline.StreamChunk the forward loop makes of an llm.StreamChunk.
ForwardChunkNoContent(chunk) ==
    [Content |-> "", FinishReason |-> chunk.FinishReason]

ForwardChunk(chunk) ==
    [Content |-> chunk.Content, FinishReason |-> chunk.FinishReason]

\* for chunk := range llmChunkChan: the provider's send on its unbuffered
\* channel meets the receive.
ORecvChunk ==
    /\ oPc = "recv"
    /\ pPc = "send"
    /\ oChunk' = ForwardChunk(pScript[pPos])
    /\ oPc' = "send"
    /\ pPos' = pPos + 1
    /\ pPc' = "scan"
    /\ UNCHANGED <<ctxDone, hVars, oErr, oSrc, allResults, oChans, pErr,
                   pChans, cfgVars>>

\* The range loop ends when llmChunkChan is closed.
ORecvClosed ==
    /\ oPc = "recv"
    /\ llmChunkCloses > 0
    /\ oPc' = "readLlmErr"
    /\ UNCHANGED <<ctxDone, hVars, oChunk, oErr, oSrc, allResults, oChans,
                   pVars, pChans, cfgVars>>

\* if err := <-llmErrChan; err != nil { errChan <- err }
OReadLlmErr ==
    /\ oPc = "readLlmErr"
    /\ CanRecv(llmErrChan, llmErrCloses)
    /\ llmErrChan' = IF Len(llmErrChan) > 0 THEN Tail(llmErrChan)
                     ELSE llmErrChan
    /\ IF RecvVal(llmErrChan) # NoErr
       THEN /\ oPc' = "sendErr"
            /\ oErr' = RecvVal(llmErrChan)
       ELSE /\ oPc' = "closeErr"
            /\ oErr' = oErr
    /\ UNCHANGED <<ctxDone, hVars, oChunk, oSrc, allResults, oChans, pVars,
                   llmErrCloses, llmChunkCloses, cfgVars>>

\* select { case chunkChan <- ...: (HRecvChunk) case <-ctx.Done(): }
OSendCtxDone ==
    /\ oPc = "send"
    /\ ctxDone
    /\ oPc' = "sendErr"
    /\ oErr' = ErrCanceled
    /\ UNCHANGED <<ctxDone, hVars, oChunk, oSrc, allResults, oChans, pVars,
                   pChans, cfgVars>>

\* errChan <- err; return
OSendErr ==
    /\ oPc = "sendErr"
    /\ Len(errChan) < ErrChanCap
    /\ errChan' = Append(errChan, oErr)
    /\ oPc' = "closeErr"
    /\ UNCHANGED <<ctxDone, hVars, oChunk, oErr, oSrc, allResults, errCloses,
                   chunkCloses, pVars, pChans, cfgVars>>

\* The goroutine without its defer close(errChan).
OCloseErrOmitted ==
    /\ oPc = "closeErr"
    /\ oPc' = "closeChunk"
    /\ UNCHANGED <<ctxDone, hVars, oChunk, oErr, oSrc, allResults, errChan,
                   errCloses, chunkCloses, pVars, pChans, cfgVars>>

\* The deferred calls run last registered first: close(errChan), then
\* close(chunkChan).
OCloseErr ==
    /\ oPc = "closeErr"
    /\ errCloses' = errCloses + 1
    /\ oPc' = "closeChunk"
    /\ UNCHANGED <<ctxDone, hVars, oChunk, oErr, oSrc, allResults, errChan,
                   chunkCloses, pVars, pChans, cfgVars>>

OCloseChunk ==
    /\ oPc = "closeChunk"
    /\ chunkCloses' = chunkCloses + 1
    /\ oPc' = "exited"
    /\ UNCHANGED <<ctxDone, hVars, oChunk, oErr, oSrc, allResults, errChan,
                   errCloses, pVars, pChans, cfgVars>>

Orchestrator ==
    \/ OEmbed \/ OSearchSource \/ OPack \/ OComplete \/ ORecvChunk
    \/ ORecvClosed
    \/ OReadLlmErr \/ OSendCtxDone \/ OSendErr \/ OCloseErr \/ OCloseChunk
    \/ HRecvChunk

(***************************************************************************)
(* CompletionProvider.CompleteStream: the goroutine (the OpenAI, Anthropic *)
(* and Ollama adapters have the same shape)                                *)
(***************************************************************************)
\* select { case chunkChan <- chunk: case <-ctx.Done(): ... }: the send can
\* be abandoned once the context is cancelled.
SendAbortableNever == FALSE

SendAbortable == ctxDone

\* resp, err := p.client.request(ctx, ...) and the status check.
PRequest ==
    /\ pPc = "request"
    /\ \E ok \in BOOLEAN :
          IF ok
          THEN /\ pPc' = "scan"
               /\ pErr' = pErr
          ELSE /\ pPc' = "sendErr"
               /\ pErr' = ErrProviderRequest
    /\ UNCHANGED <<ctxDone, hVars, oVars, oChans, pPos, pChans, cfgVars>>

\* scanner.Scan(): the next chunk, the end of the stream (terminal
\* sentinel or EOF), or a read error (also: the read aborted by ctx).
PScan ==
    /\ pPc = "scan"
    /\ \E ok \in BOOLEAN :
          IF ok
          THEN /\ pPc' = IF pPos <= Len(pScript) THEN "send" ELSE "closeErr"
               /\ pErr' = pErr
          ELSE /\ pPc' = "sendErr"
               /\ pErr' = ErrStreamRead
    /\ UNCHANGED <<ctxDone, hVars, oVars, oChans, pPos, pChans, cfgVars>>

\* case <-ctx.Done(): errChan <- ctx.Err(); return
PSendCtxDone ==
    /\ pPc = "send"
    /\ SendAbortable
    /\ pPc' = "sendErr"
    /\ pErr' = ErrCanceled
    /\ UNCHANGED <<ctxDone, hVars, oVars, oChans, pPos, pChans, cfgVars>>

PSendErr ==
    /\ pPc = "sendErr"
    /\ Len(llmErrChan) < LlmErrChanCap
    /\ llmErrChan' = Append(llmErrChan, pErr)
    /\ pPc' = "closeErr"
    /\ UNCHANGED <<ctxDone, hVars, oVars, oChans, pPos, pErr, llmErrCloses,
                   llmChunkCloses, cfgVars>>

PCloseErr ==
    /\ pPc = "closeErr"
    /\ llmErrCloses' = llmErrCloses + 1
    /\ pPc' = "closeChunk"
    /\ UNCHANGED <<ctxDone, hVars, oVars, oChans, pPos, pErr, llmErrChan,
                   llmChunkCloses, cfgVars>>

PCloseChunk ==
    /\ pPc = "closeChunk"
    /\ llmChunkCloses' = llmChunkCloses + 1
    /\ pPc' = "exited"
    /\ UNCHANGED <<ctxDone, hVars, oVars, oChans, pPos, pErr, llmErrChan,
                   llmErrCloses, cfgVars>>

Provider ==
    \/ PRequest \/ PScan \/ PSendCtxDone \/ PSendErr \/ PCloseErr
    \/ PCloseChunk \/ ORecvChunk

StreamNext ==
    \/ Cancel
    \/ HStart \/ HRecvChunk \/ HClosed \/ HReadErr \/ HCtxDone
    \/ OEmbed \/ OSearchSource \/ OPack \/ OComplete \/ ORecvChunk
    \/ ORecvClosed
    \/ OReadLlmErr \/ OSendCtxDone \/ OSendErr \/ OCloseErr \/ OCloseChunk
    \/ PRequest \/ PScan \/ PSendCtxDone \/ PSendErr \/ PCloseErr
    \/ PCloseChunk

StreamSpec == StreamInit /\ [][StreamNext]_vars

\* Every goroutine that can take a step eventually takes one; cancellation
\* is not forced.
FairStreamSpec ==
    /\ StreamSpec
    /\ WF_vars(Handler)
    /\ WF_vars(Orchestrator)
    /\ WF_vars(Provider)

(***************************************************************************)
(* Server.handlePipeline and the non-streaming Orchestrator.Execute        *)
(***************************************************************************)
qRest == <<indexVars, filterVars, restVars, ctxDone, hExit, events, oPc,
           oChunk, oErr,
           oSrc, allResults, oChans, pVars, pChans, nSources, pScript, qReq>>

\* handlePipeline handing every POST for a known pipeline to the pipeline,
\* whatever its body.
QValidateAnyBody ==
    /\ qPc = "recv"
    /\ IF qReq.method # "POST" \/ qReq.name \notin PipelineNames
       THEN /\ qResp' = Rejection(qReq)
            /\ qPc' = "responded"
            /\ UNCHANGED <<hPc, xPc>>
       ELSE IF qReq.stream
       THEN /\ qPc' = "stream"
            /\ hPc' = "start"
            /\ UNCHANGED <<qResp, xPc>>
       ELSE /\ qPc' = "execute"
            /\ xPc' = "embed"
            /\ UNCHANGED <<qResp, hPc>>
    /\ UNCHANGED <<xSrc, xResults, xErr, qRest>>

\* handlePipeline: method, name, pipeline lookup, body, query; then either
\* handleStreamingQuery or Execute.
QValidate ==
    /\ qPc = "recv"
    /\ IF Rejection(qReq) # NoResponse
       THEN /\ qResp' = Rejection(qReq)
            /\ qPc' = "responded"
            /\ UNCHANGED <<hPc, xPc>>
       ELSE IF qReq.stream
       THEN /\ qPc' = "stream"
            /\ hPc' = "start"
            /\ UNCHANGED <<qResp, xPc>>
       ELSE /\ qPc' = "execute"
            /\ xPc' = "embed"
            /\ UNCHANGED <<qResp, hPc>>
    /\ UNCHANGED <<xSrc, xResults, xErr, qRest>>

\* Execute going on to the sources although the embedding failed.
XEmbedContinue ==
    /\ xPc = "embed"
    /\ xPc' = "search"
    /\ \E ok \in BOOLEAN : xErr' = IF ok THEN xErr ELSE ErrEmbedding
    /\ UNCHANGED <<qPc, qResp, hPc, xSrc, xResults, qRest>>

\* Execute: embedding, err := o.embeddingProv.Embed(ctx, req.Query)
XEmbed ==
    /\ xPc = "embed"
    /\ \E ok \in BOOLEAN :
          IF ok
          THEN /\ xPc' = "search"
               /\ xErr' = xErr
          ELSE /\ xPc' = "returned"
               /\ xErr' = ErrEmbedding
    /\ UNCHANGED <<qPc, qResp, hPc, xSrc, xResults, qRest>>

\* The loop iteration returning the database error of a failed vector
\* search.
XSearchSourceFailFast ==
    /\ xPc = "search"
    /\ xSrc <= nSources
    /\ \E outcome \in SearchOutcomes(qReq.filter), n \in 0..1 :
          IF outcome = "vectorFailed"
          THEN /\ xPc' = "returned"
               /\ xErr' = ErrVectorSearch
               /\ UNCHANGED <<xSrc, xResults>>
          ELSE /\ xResults' = xResults + n
               /\ xSrc' = xSrc + 1
               /\ UNCHANGED <<xPc, xErr>>
    /\ UNCHANGED <<qPc, qResp, hPc, qRest>>

\* Execute: one iteration of the loop over the table sources.
XSearchSource ==
    /\ xPc = "search"
    /\ xSrc <= nSources
    /\ \E outcome \in SearchOutcomes(qReq.filter), n \in 0..1 :
          xResults' = IF outcome = "vectorFailed" THEN xResults
                      ELSE xResults + n
    /\ xSrc' = xSrc + 1
    /\ UNCHANGED <<qPc, qResp, hPc, xPc, xErr, qRest>>

\* Execute after the loop: deduplicate, fail on an empty pool, otherwise
\* build the context and the completion request.
XPack ==
    /\ xPc = "search"
    /\ xSrc > nSources
    /\ IF xResults = 0
       THEN /\ xPc' = "returned"
            /\ xErr' = ErrNoDocuments
       ELSE /\ xPc' = "complete"
            /\ xErr' = xErr
    /\ UNCHANGED <<qPc, qResp, hPc, xSrc, xResults, qRest>>

\* completionResp, err := o.completionProv.Complete(ctx, completionReq)
XComplete ==
    /\ xPc = "complete"
    /\ xPc' = "returned"
    /\ \E ok \in BOOLEAN : xErr' = IF ok THEN NoErr ELSE ErrCompletion
    /\ UNCHANGED <<qPc, qResp, hPc, xSrc, xResults, qRest>>

\* handlePipeline after ExecuteWithOptions returned.
XRespond ==
    /\ qPc = "execute"
    /\ xPc = "returned"
    /\ qResp' = IF xErr # NoErr
                THEN Response(500, "EXECUTION_ERROR", xErr)
                ELSE Response(200, "", "")
    /\ qPc' = "responded"
    /\ UNCHANGED <<hPc, xPc, xSrc, xResults, xErr, qRest>>

QueryNext ==
    \/ QValidate \/ XEmbed \/ XSearchSource \/ XPack \/ XComplete
    \/ XRespond
    \/ StreamNext

QueryStart ==
    /\ QueryInit
    /\ hPc = "idle"
    /\ StreamFresh
    /\ IndexIdle
    /\ FilterIdle
    /\ RestIdle

QuerySpec == QueryStart /\ [][QueryNext]_vars

(***************************************************************************)
(* Orchestrator.Execute's loop over the table sources, run by concurrent   *)
(* requests of one pipeline: NewOrchestrator makes one bm25.Index and      *)
(* every request of the pipeline uses it.                                  *)
(***************************************************************************)
Requests == 1..NumRequests

DocIds == 1..MaxDocs

Contents == {"alpha beta", "beta gamma"}

\* map[string]string as FetchDocuments returns it: ids (the id column, or
\* ROW_NUMBER() of the filtered rows) to contents.
DocMaps == UNION {[S -> Contents] : S \in SUBSET DocIds}

EmptyDocs == [i \in {} |-> ""]

IndexInit ==
    /\ idxDocs = EmptyDocs
    /\ idxTotalDocs = 0
    /\ rPc = [r \in Requests |-> "fetch"]
    /\ rSrc = [r \in Requests |-> 1]
    /\ rDocs = [r \in Requests |-> EmptyDocs]
    /\ rPending = [r \in Requests |-> {}]
    /\ rScored = [r \in Requests |-> EmptyDocs]

\* No streaming request is running.
StreamIdle ==
    /\ ctxDone = FALSE
    /\ hPc = "idle"
    /\ hExit = "none"
    /\ events = <<>>
    /\ oPc = "idle"
    /\ oChunk = NoChunk
    /\ oErr = NoErr
    /\ oSrc = 1
    /\ nSources = 0
    /\ allResults = 0
    /\ errChan = <<>>
    /\ errCloses = 0
    /\ chunkCloses = 0
    /\ pPc = "idle"
    /\ pScript = <<>>
    /\ pPos = 1
    /\ pErr = NoErr
    /\ llmErrChan = <<>>
    /\ llmErrCloses = 0
    /\ llmChunkCloses = 0

\* Index.AddDocument, under idx.mu: docs[id] = doc; totalDocs++.
AddDocument(docs, id, content) ==
    [i \in DOMAIN docs \cup {id} |-> IF i = id THEN content ELSE docs[i]]

\* Index.Search, under idx.mu: the documents it scores (none when
\* totalDocs is 0).
Searched(docs, totalDocs) == IF totalDocs = 0 THEN EmptyDocs ELSE docs

\* What the requests on the index leave alone.
idxRest == <<streamVars, filterVars, queryVars, restVars>>

\* VectorSearch and FetchDocuments of the source: a failure of either skips
\* the indexing of this source.
ExecFetch(r) ==
    /\ rPc[r] = "fetch"
    /\ rSrc[r] <= MaxSources
    /\ \/ /\ rSrc' = [rSrc EXCEPT ![r] = @ + 1]
          /\ UNCHANGED <<rPc, rDocs>>
       \/ \E docs \in DocMaps :
             /\ rDocs' = [rDocs EXCEPT ![r] = docs]
             /\ rPc' = [rPc EXCEPT ![r] = "clear"]
             /\ rSrc' = rSrc
    /\ UNCHANGED <<idxDocs, idxTotalDocs, rPending, rScored,
                   idxRest>>

\* o.bm25Index.Clear()
ExecClear(r) ==
    /\ rPc[r] = "clear"
    /\ idxDocs' = EmptyDocs
    /\ idxTotalDocs' = 0
    /\ rPending' = [rPending EXCEPT ![r] = DOMAIN rDocs[r]]
    /\ rPc' = [rPc EXCEPT ![r] = "add"]
    /\ UNCHANGED <<rSrc, rDocs, rScored,
                   idxRest>>

\* o.bm25Index.AddDocuments(docs): one AddDocument per entry of the map,
\* each taking and releasing the lock.
ExecAdd(r) ==
    /\ rPc[r] = "add"
    /\ \E id \in rPending[r] :
          /\ idxDocs' = AddDocument(idxDocs, id, rDocs[r][id])
          /\ idxTotalDocs' = idxTotalDocs + 1
          /\ rPending' = [rPending EXCEPT ![r] = @ \ {id}]
    /\ UNCHANGED <<rPc, rSrc, rDocs, rScored,
                   idxRest>>

\* o.bm25Index.Search(req.Query, topN*2)
ExecSearch(r) ==
    /\ rPc[r] = "add"
    /\ rPending[r] = {}
    /\ rScored' = [rScored EXCEPT ![r] = Searched(idxDocs, idxTotalDocs)]
    /\ rPc' = [rPc EXCEPT ![r] = "fuse"]
    /\ UNCHANGED <<idxDocs, idxTotalDocs, rSrc, rDocs, rPending,
                   idxRest>>

\* HybridSearch and the append to allResults; on to the next source.
ExecFuse(r) ==
    /\ rPc[r] = "fuse"
    /\ rPc' = [rPc EXCEPT ![r] = "fetch"]
    /\ rSrc' = [rSrc EXCEPT ![r] = @ + 1]
    /\ UNCHANGED <<idxDocs, idxTotalDocs, rDocs, rPending, rScored,
                   idxRest>>

IndexNext ==
    \E r \in Requests :
       \/ ExecFetch(r)
       \/ ExecClear(r)
       \/ ExecAdd(r)
       \/ ExecSearch(r)
       \/ ExecFuse(r)

IndexStart ==
    IndexInit /\ StreamIdle /\ FilterIdle /\ QueryIdle /\ RestIdle

IndexSpec == IndexStart /\ [][IndexNext]_vars

(***************************************************************************)
(* The two callers of the compiler: Pool.VectorSearch numbers the filter   *)
(* from $3 ($1 is the vector, $2 the limit), Pool.FetchDocuments from $1.  *)
(***************************************************************************)
FilterOperators == {"=", "in", "IS NULL", "drop"}

ValueStrings == {"v1", "v2"}

FilterValues ==
    {NilValue, Scalar("v1"), List(<<>>), List(<<"v1", "v2">>)}

Logics == {"", "or", "xor"}

RequestConds ==
    {Cond("product", o, v) : o \in FilterOperators, v \in FilterValues}

RequestFilters ==
    {NoFilter} \cup
    {Filter(cs, l) : cs \in SeqsUpTo(RequestConds, MaxConds), l \in Logics}

ConfigConds ==
    {Cond("tenant", "=", Scalar("v2")),
     Cond("tenant", "in", List(<<"v2", "v1">>)),
     Cond("tenant", "drop", Scalar("v1"))}

ConfigFilters ==
    {NoConfigFilter,
     ConfigFilter("tenant_id = 1", NoFilter),
     ConfigFilter("", Filter(<<>>, ""))}
    \cup {ConfigFilter("", Filter(<<c>>, "")) : c \in ConfigConds}

VectorArg == Scalar("[0.1,0.2,0.3]")

LimitArg == Scalar("topN")

FilterInit ==
    /\ fPc = "input"
    /\ fCfg \in ConfigFilters
    /\ fReq \in RequestFilters
    /\ fStart = 0
    /\ fOut = Compiled(<<>>, <<>>, NoErr, 0)
    /\ fArgs = <<>>

\* Pool.VectorSearch up to pool.Query: on a filter error nothing is sent.
BuildVectorSearch ==
    /\ fPc = "input"
    /\ fPc' = "vector"
    /\ fStart' = 3
    /\ fOut' = buildFilterClause(fCfg, fReq, 3)
    /\ fArgs' = IF fOut'.err # NoErr THEN <<>>
                ELSE <<VectorArg, LimitArg>> \o fOut'.args
    /\ UNCHANGED <<fCfg, fReq, streamVars, indexVars, queryVars, restVars>>

\* Pool.FetchDocuments up to pool.Query.
BuildFetchDocuments ==
    /\ fPc = "input"
    /\ fPc' = "fetch"
    /\ fStart' = 1
    /\ fOut' = buildFilterClause(fCfg, fReq, 1)
    /\ fArgs' = fOut'.args
    /\ UNCHANGED <<fCfg, fReq, streamVars, indexVars, queryVars, restVars>>

FilterNext == BuildVectorSearch \/ BuildFetchDocuments

FilterStart ==
    FilterInit /\ StreamIdle /\ IndexIdle /\ QueryIdle /\ RestIdle

FilterSpec == FilterStart /\ [][FilterNext]_vars

(***************************************************************************)
(* Execute's steps 3 and 4: Orchestrator.deduplicateResults and            *)
(* Orchestrator.buildContext.  Strings are sequences of characters.        *)
(***************************************************************************)
\* if remaining > 100
TruncateMinRemaining == 100

\* Rough token estimate: ~4 characters per token
CharsPerToken == 4

Fill(n) == [i \in 1..n |-> "a"]

\* ". "
SentenceEnd == <<".", " ">>

\* "..."
Ellipsis == <<".", ".", ".">>

\* database.SearchResult
SearchResult(id, content, score) ==
    [ID |-> id, Content |-> content, Score |-> score]

\* llm.ContextDocument
ContextDocument(content, score) == [Content |-> content, Score |-> score]

\* Short contents, and contents of more than TruncateMinRemaining tokens:
\* with a sentence end inside, without one, and with the only one at index 0.
LongSentences == Fill(200) \o SentenceEnd \o Fill(218)

LongWord == Fill(420)

LongLeadingStop == SentenceEnd \o Fill(410)

PoolResults ==
    {SearchResult(<<>>, <<>>, 1),
     SearchResult(<<>>, Fill(5), 1),
     SearchResult(<<"1">>, Fill(5), 1),
     SearchResult(Fill(5), Fill(8), 1),
     SearchResult(<<"2">>, LongSentences, 1),
     SearchResult(<<>>, LongSentences, 1),
     SearchResult(<<>>, LongWord, 1),
     SearchResult(<<>>, LongLeadingStop, 1)}

TokenBudgets == {0, 1, 101, 104, 210}

min(a, b) == IF a < b THEN a ELSE b

\* key := r.Content; if r.ID != "" { key = r.ID }
Key(r) == IF r.ID # <<>> THEN r.ID ELSE r.Content

\* The loop of deduplicateResults from the i-th result on.
RECURSIVE DeduplicateLoop(_, _, _, _, _)
DeduplicateLoop(results, i, n, seen, unique) ==
    IF i > Len(results) THEN unique
    ELSE IF Key(results[i]) \in seen
    THEN DeduplicateLoop(results, i + 1, n, seen, unique)
    ELSE IF Len(unique) + 1 >= n
    THEN Append(unique, results[i])
    ELSE DeduplicateLoop(results, i + 1, n, seen \cup {Key(results[i])},
                         Append(unique, results[i]))

\* deduplicateResults that only limits the list.
deduplicateResultsNoSeen(results, n) ==
    SubSeq(results, 1, min(n, Len(results)))

\* deduplicateResults
deduplicateResults(results, n) == DeduplicateLoop(results, 1, n, {}, <<>>)

\* strings.LastIndex(s, ". "), 0-based; -1 when there is none.
LastIndex(s) ==
    LET I == {i \in 0..(Len(s) - 2) : s[i + 1] = "." /\ s[i + 2] = " "} IN
    IF I = {} THEN -1 ELSE CHOOSE i \in I : \A j \in I : j <= i

\* The content of the truncated last document.
Truncated(content, remaining) ==
    LET t == SubSeq(content, 1, min(Len(content), remaining * CharsPerToken))
        idx == LastIndex(t)
    IN
    (IF idx > 0 THEN SubSeq(t, 1, idx + 1) ELSE t) \o Ellipsis

\* The loop of buildContext from the i-th result on.
RECURSIVE BuildContextLoop(_, _, _, _, _)
BuildContextLoop(results, i, budget, docs, totalTokens) ==
    IF i > Len(results) THEN docs
    ELSE LET r == results[i]
             estimatedTokens == Len(r.Content) \div CharsPerToken
             remaining == budget - totalTokens
         IN
         IF totalTokens + estimatedTokens > budget
         THEN IF remaining > TruncateMinRemaining
              THEN Append(docs, ContextDocument(
                                   Truncated(r.Content, remaining), r.Score))
              ELSE docs
         ELSE BuildContextLoop(results, i + 1, budget,
                               Append(docs,
                                      ContextDocument(r.Content, r.Score)),
                               totalTokens + estimatedTokens)

\* buildContext
buildContext(results, budget) ==
    BuildContextLoop(results, 1, budget, <<>>, 0)

PackInit ==
    /\ packPc = "input"
    /\ poolResults \in SeqsUpTo(PoolResults, MaxResults)
    /\ topN \in 1..(MaxResults + 1)
    /\ tokenBudget \in TokenBudgets
    /\ uniqueResults = <<>>
    /\ contextDocs = <<>>

packRest == <<streamVars, indexVars, filterVars, queryVars, fuseVars,
              mgrVars, moreVars>>

\* results := o.deduplicateResults(allResults, topN); an empty list ends
\* the request.
Deduplicate ==
    /\ packPc = "input"
    /\ uniqueResults' = deduplicateResults(poolResults, topN)
    /\ packPc' = IF Len(uniqueResults') = 0 THEN "noDocuments"
                 ELSE "deduplicated"
    /\ UNCHANGED <<poolResults, topN, tokenBudget, contextDocs, packRest>>

\* contextDocs := o.buildContext(results)
BuildContext ==
    /\ packPc = "deduplicated"
    /\ contextDocs' = buildContext(uniqueResults, tokenBudget)
    /\ packPc' = "packed"
    /\ UNCHANGED <<poolResults, topN, tokenBudget, uniqueResults, packRest>>

PackNext == Deduplicate \/ BuildContext

PackStart ==
    /\ PackInit
    /\ StreamIdle
    /\ IndexIdle
    /\ FilterIdle
    /\ QueryIdle
    /\ FuseIdle
    /\ MgrIdle
    /\ MoreIdle

PackSpec == PackStart /\ [][PackNext]_vars

(***************************************************************************)
(* database.ReciprocalRankFusion and database.HybridSearch.  Scores are    *)
(* fractions.                                                              *)
(***************************************************************************)
\* const DefaultRRFConstant = 60
DefaultRRFConstant == 60

Frac(n, d) == [num |-> n, den |-> d]

\* 1.0 / (k + float64(rank))
Reciprocal(k, rank) == Frac(1, k + rank)

FracAdd(a, b) == Frac(a.num * b.den + b.num * a.den, a.den * b.den)

FracGreater(a, b) == a.num * b.den > b.num * a.den

FracEqual(a, b) == a.num * b.den = b.num * a.den

\* RRFResult
RRFResult(id, content, score, vecRank, bm25Rank) ==
    [ID |-> id, Content |-> content, Score |-> score, VecRank |-> vecRank,
     BM25Rank |-> bm25Rank]

\* The rows of the table source: id (the id column or ROW_NUMBER()) and
\* content.
TableRows ==
    {[id |-> <<"1">>, content |-> Fill(1)],
     [id |-> <<"2">>, content |-> Fill(2)],
     [id |-> <<"3">>, content |-> Fill(3)]}

\* Lists of distinct rows, best first.
Rankings ==
    {s \in SeqsUpTo(TableRows, MaxRanked) :
        \A i, j \in 1..Len(s) : i # j => s[i] # s[j]}

\* rows.Scan(&r.Content, &r.Score): a vector result carries no ID.
VectorResultOf(row) == SearchResult(<<>>, row.content, 1)

\* Index.Search returns the id of the document with its content.
Bm25ResultOf(row) == SearchResult(row.id, row.content, 1)

\* One pass of ReciprocalRankFusion over a list, from the i-th result on;
\* resultMap maps keys to RRFResults.
RECURSIVE Accumulate(_, _, _, _, _)
Accumulate(list, i, k, resultMap, isVector) ==
    IF i > Len(list) THEN resultMap
    ELSE LET r == list[i]
             key == Key(r)
             add == Reciprocal(k, i)
             entry ==
                IF key \in DOMAIN resultMap
                THEN IF isVector
                     THEN [resultMap[key] EXCEPT
                              !.Score = FracAdd(@, add), !.VecRank = i]
                     ELSE [resultMap[key] EXCEPT
                              !.Score = FracAdd(@, add), !.BM25Rank = i]
                ELSE IF isVector
                     THEN RRFResult(r.ID, r.Content, add, i, 0)
                     ELSE RRFResult(r.ID, r.Content, add, 0, i)
         IN
         Accumulate(list, i + 1, k,
                    [x \in DOMAIN resultMap \cup {key} |->
                        IF x = key THEN entry ELSE resultMap[x]],
                    isVector)

\* The resultMap after both passes.
ResultMap(vector, bm25, k) ==
    Accumulate(bm25, 1, IF k <= 0 THEN DefaultRRFConstant ELSE k,
               Accumulate(vector, 1,
                          IF k <= 0 THEN DefaultRRFConstant ELSE k,
                          <<>>, TRUE),
               FALSE)

\* The map's values in the order of one iteration over the map followed by
\* sort.Slice on the score: highest first, equal scores in any order.
SortedByScore(resultMap) ==
    LET n == Cardinality(DOMAIN resultMap)
        orders == {o \in [1..n -> DOMAIN resultMap] :
                      \A i, j \in 1..n : i # j => o[i] # o[j]}
    IN
    {[i \in 1..n |-> resultMap[o[i]]] : o \in
        {o \in orders :
            \A i \in 1..(n - 1) :
               ~FracGreater(resultMap[o[i + 1]].Score,
                            resultMap[o[i]].Score)}}

\* ReciprocalRankFusion: the lists it can return.
ReciprocalRankFusion(vector, bm25, k) ==
    SortedByScore(ResultMap(vector, bm25, k))

\* The conversion and the limit of HybridSearch.
LimitTo(rrf, n) ==
    [i \in 1..min(n, Len(rrf)) |->
        SearchResult(rrf[i].ID, rrf[i].Content, rrf[i].Score)]

\* HybridSearch: the lists it can return.
HybridSearch(vector, bm25, n) ==
    {LimitTo(rrf, n) :
        rrf \in ReciprocalRankFusion(vector, bm25, DefaultRRFConstant)}

FuseInit ==
    /\ fusePc = "input"
    /\ vectorResults \in {[i \in 1..Len(s) |-> VectorResultOf(s[i])] :
                             s \in Rankings}
    /\ bm25Results \in {[i \in 1..Len(s) |-> Bm25ResultOf(s[i])] :
                           s \in Rankings}
    /\ fuseTopN \in 1..MaxRanked
    /\ rrfResults = <<>>
    /\ hybridResults = <<>>

fuseRest == <<streamVars, indexVars, filterVars, queryVars, packVars,
              mgrVars, moreVars>>

\* hybridResults := database.HybridSearch(vectorResults, bm25SearchResults,
\* topN)
Fuse ==
    /\ fusePc = "input"
    /\ rrfResults' \in ReciprocalRankFusion(vectorResults, bm25Results,
                                            DefaultRRFConstant)
    /\ hybridResults' = LimitTo(rrfResults', fuseTopN)
    /\ fusePc' = "fused"
    /\ UNCHANGED <<vectorResults, bm25Results, fuseTopN, fuseRest>>

FuseNext == Fuse

FuseStart ==
    /\ FuseInit
    /\ StreamIdle
    /\ IndexIdle
    /\ FilterIdle
    /\ QueryIdle
    /\ PackIdle
    /\ MgrIdle
    /\ MoreIdle

FuseSpec == FuseStart /\ [][FuseNext]_vars

(***************************************************************************)
(* Execute from the hybrid search of one table source to the context:      *)
(* HybridSearch, the append to allResults, deduplicateResults and          *)
(* buildContext, all with the topN of the request.                         *)
(***************************************************************************)
\* allResults = append(allResults, hybridResults...) after the only source
AppendHybrid ==
    /\ fusePc = "fused"
    /\ packPc = "idle"
    /\ fusePc' = "pooled"
    /\ packPc' = "input"
    /\ poolResults' = hybridResults
    /\ topN' = fuseTopN
    /\ tokenBudget' \in TokenBudgets
    /\ UNCHANGED <<vectorResults, bm25Results, fuseTopN, rrfResults,
                   hybridResults, uniqueResults, contextDocs, streamVars,
                   indexVars, filterVars, queryVars, mgrVars, moreVars>>

ResultNext == Fuse \/ AppendHybrid \/ Deduplicate \/ BuildContext

ResultStart ==
    /\ FuseInit
    /\ StreamIdle
    /\ IndexIdle
    /\ FilterIdle
    /\ QueryIdle
    /\ PackIdle
    /\ MgrIdle
    /\ MoreIdle

ResultSpec == ResultStart /\ [][ResultNext]_vars

(***************************************************************************)
(* config.Load, pipeline.NewManagerWithLogger and the Manager's methods.   *)
(* A YAML key is the set of its values in the file: empty when the key is  *)
(* absent.                                                                 *)
(***************************************************************************)
DefaultTokenBudget == 4000
DefaultTopN == 5
ErrPipelineNotFound == "pipeline not found"

\* config.DefaultConfig
DefaultConfig ==
    [Defaults |-> [TokenBudget |-> 1000, TopN |-> 10], Pipelines |-> <<>>]

ConfigNames == {"docs", "kb", "faq"}

\* token_budget and top_n of one pipeline entry of the file.
YamlPipelineLimits ==
    { [token_budget |-> {}, top_n |-> {}],
      [token_budget |-> {}, top_n |-> {3}],
      [token_budget |-> {2000}, top_n |-> {0}] }

\* token_budget and top_n of the defaults section of the file.
YamlDefaultsLimits ==
    { [token_budget |-> {}, top_n |-> {}],
      [token_budget |-> {}, top_n |-> {7}],
      [token_budget |-> {3000}, top_n |-> {0}] }

YamlPipelines ==
    { [name |-> n, token_budget |-> l.token_budget, top_n |-> l.top_n] :
        n \in ConfigNames, l \in YamlPipelineLimits }

ConfigFiles ==
    { [defaults |-> d, pipelines |-> ps] :
        d \in YamlDefaultsLimits,
        ps \in UNION { [1..n -> YamlPipelines] : n \in 0..MaxPipelines } }

\* The files that leave the limits to the defaults.
ManagerFiles ==
    { f \in ConfigFiles :
        /\ f.defaults = [token_budget |-> {}, top_n |-> {}]
        /\ \A i \in 1..Len(f.pipelines) :
              f.pipelines[i].token_budget = {} /\ f.pipelines[i].top_n = {} }

\* yaml.Unmarshal of one integer key into a field holding old.
YamlInt(key, old) == IF key = {} THEN old ELSE CHOOSE v \in key : TRUE

\* yaml.Unmarshal(data, cfg)
Unmarshal(file, cfg) ==
    [Defaults |->
        [TokenBudget |-> YamlInt(file.defaults.token_budget,
                                 cfg.Defaults.TokenBudget),
         TopN |-> YamlInt(file.defaults.top_n, cfg.Defaults.TopN)],
     Pipelines |->
        [i \in 1..Len(file.pipelines) |->
            [Name |-> file.pipelines[i].name,
             TokenBudget |-> YamlInt(file.pipelines[i].token_budget, 0),
             TopN |-> YamlInt(file.pipelines[i].top_n, 0)]]]

\* config.applyDefaults
applyDefaults(cfg) ==
    [cfg EXCEPT !.Pipelines =
        [i \in 1..Len(cfg.Pipelines) |->
            [cfg.Pipelines[i] EXCEPT
                !.TokenBudget = IF @ = 0 THEN cfg.Defaults.TokenBudget ELSE @,
                !.TopN = IF @ = 0 THEN cfg.Defaults.TopN ELSE @]]]

\* Config.Validate: the checks on the fields modelled here.
Validate(cfg) ==
    /\ Len(cfg.Pipelines) > 0
    /\ \A i, j \in 1..Len(cfg.Pipelines) :
          i # j => cfg.Pipelines[i].Name # cfg.Pipelines[j].Name
    /\ \A i \in 1..Len(cfg.Pipelines) :
          /\ cfg.Pipelines[i].Name # ""
          /\ cfg.Pipelines[i].TokenBudget >= 0
          /\ cfg.Pipelines[i].TopN >= 0

\* config.loadFromFile up to the validation.
loadFromFile(file) == applyDefaults(Unmarshal(file, DefaultConfig))

\* createPipeline: pipeline > global defaults > hardcoded default.
TokenBudgetOf(cfg, pCfg) ==
    IF pCfg.TokenBudget > 0 THEN pCfg.TokenBudget
    ELSE IF cfg.Defaults.TokenBudget > 0 THEN cfg.Defaults.TokenBudget
    ELSE DefaultTokenBudget

TopNOf(cfg, pCfg) ==
    IF pCfg.TopN > 0 THEN pCfg.TopN
    ELSE IF cfg.Defaults.TopN > 0 THEN cfg.Defaults.TopN
    ELSE DefaultTopN

\* How one call of createPipeline ends.  NewPool opens a pgx pool unless
\* the connection string does not parse or the pool cannot be created.
CreateOutcomes ==
    {"parseFailed", "poolFailed", "pingFailed", "embeddingFailed",
     "completionFailed", "created"}

OpensPool(outcome) == outcome \notin {"parseFailed", "poolFailed"}

\* Pool.Close on every pool of S.
ClosePools(ps, S) ==
    [i \in DOMAIN ps |->
        IF i \in S THEN [ps[i] EXCEPT !.closes = @ + 1] ELSE ps[i]]

\* The pools Pipeline.Close closes when ranging over m.pipelines.
PoolsOf(m) == { m[n].dbPool : n \in DOMAIN m }

\* m.pipelines[name] = p
MapPut(m, name, p) ==
    [n \in DOMAIN m \cup {name} |-> IF n = name THEN p ELSE m[n]]

Callers == 1..NumCallers

\* The top_n of a query request; 0 when the body has none.
RequestTopNs == {0, 2}

mgrRest == <<streamVars, indexVars, filterVars, queryVars, packVars, fuseVars,
             moreVars>>

MgrInit ==
    /\ mCfg = <<>>
    /\ mPc = "load"
    /\ mIdx = 1
    /\ pipelines = <<>>
    /\ pools = [i \in 1..MaxPipelines |-> [opened |-> FALSE, closes |-> 0]]
    /\ mu = [writer |-> 0, readers |-> {}]
    /\ cPc = [c \in Callers |-> "idle"]
    /\ cRet = [c \in Callers |-> [op |-> "none", value |-> NoErr]]
    /\ closeCalls = 0
    /\ closeReturned = 0
    /\ effective = <<>>

\* main: cfg, err := config.Load(configPath); the process exits on error.
LoadConfig ==
    /\ mPc = "load"
    /\ IF Validate(loadFromFile(cfgFile))
       THEN /\ mCfg' = loadFromFile(cfgFile)
            /\ mPc' = "keys"
       ELSE /\ mCfg' = mCfg
            /\ mPc' = "exit"
    /\ UNCHANGED <<cfgFile, mIdx, pipelines, pools, mu, cPc, cRet, closeCalls,
                   closeReturned, effective, mgrRest>>

\* NewManagerWithLogger: keyLoader.LoadRequiredKeys
LoadRequiredKeys ==
    /\ mPc = "keys"
    /\ \E ok \in BOOLEAN : mPc' = IF ok THEN "create" ELSE "failed"
    /\ UNCHANGED <<cfgFile, mCfg, mIdx, pipelines, pools, mu, cPc, cRet,
                   closeCalls, closeReturned, effective, mgrRest>>

\* createPipeline leaving its own pool open and the clean-up loop of
\* NewManagerWithLogger missing.
CreatePipelineNoCleanup ==
    /\ mPc = "create"
    /\ mIdx <= Len(mCfg.Pipelines)
    /\ \E outcome \in CreateOutcomes :
          /\ pools' = [pools EXCEPT ![mIdx].opened = OpensPool(outcome)]
          /\ IF outcome = "created"
             THEN /\ pipelines' =
                        MapPut(pipelines, mCfg.Pipelines[mIdx].Name,
                               [dbPool |-> mIdx,
                                tokenBudget |->
                                    TokenBudgetOf(mCfg, mCfg.Pipelines[mIdx]),
                                topN |-> TopNOf(mCfg, mCfg.Pipelines[mIdx])])
                  /\ mIdx' = mIdx + 1
                  /\ mPc' = mPc
             ELSE /\ mPc' = "failed"
                  /\ UNCHANGED <<mIdx, pipelines>>
    /\ UNCHANGED <<cfgFile, mCfg, mu, cPc, cRet, closeCalls, closeReturned,
                   effective, mgrRest>>

\* NewManagerWithLogger: one iteration of the loop over cfg.Config.Pipelines,
\* with createPipeline and, when it fails, the clean-up and the return.
CreatePipeline ==
    /\ mPc = "create"
    /\ mIdx <= Len(mCfg.Pipelines)
    /\ \E outcome \in CreateOutcomes :
          IF outcome = "created"
          THEN /\ pools' = [pools EXCEPT ![mIdx].opened = TRUE]
               /\ pipelines' =
                     MapPut(pipelines, mCfg.Pipelines[mIdx].Name,
                            [dbPool |-> mIdx,
                             tokenBudget |->
                                 TokenBudgetOf(mCfg, mCfg.Pipelines[mIdx]),
                             topN |-> TopNOf(mCfg, mCfg.Pipelines[mIdx])])
               /\ mIdx' = mIdx + 1
               /\ mPc' = mPc
          ELSE /\ pools' =
                     ClosePools(
                         [pools EXCEPT ![mIdx].opened = OpensPool(outcome)],
                         (IF OpensPool(outcome) THEN {mIdx} ELSE {})
                             \cup PoolsOf(pipelines))
               /\ mPc' = "failed"
               /\ UNCHANGED <<mIdx, pipelines>>
    /\ UNCHANGED <<cfgFile, mCfg, mu, cPc, cRet, closeCalls, closeReturned,
                   effective, mgrRest>>

\* NewManagerWithLogger: return m, nil
NewManagerReturn ==
    /\ mPc = "create"
    /\ mIdx > Len(mCfg.Pipelines)
    /\ mPc' = "ready"
    /\ UNCHANGED <<cfgFile, mCfg, mIdx, pipelines, pools, mu, cPc, cRet,
                   closeCalls, closeReturned, effective, mgrRest>>

\* Manager.Close: m.mu.Lock()
CloseLock(c) ==
    /\ mPc = "ready"
    /\ cPc[c] = "idle"
    /\ closeCalls < MaxCloseCalls
    /\ mu.writer = 0
    /\ mu.readers = {}
    /\ mu' = [mu EXCEPT !.writer = c]
    /\ cPc' = [cPc EXCEPT ![c] = "Close"]
    /\ closeCalls' = closeCalls + 1
    /\ UNCHANGED <<cfgFile, mCfg, mPc, mIdx, pipelines, pools, cRet,
                   closeReturned, effective, mgrRest>>

\* Manager.Close leaving m.pipelines as it is.
CloseBodyKeepMap(c) ==
    /\ cPc[c] = "Close"
    /\ pools' = ClosePools(pools, PoolsOf(pipelines))
    /\ mu' = [mu EXCEPT !.writer = 0]
    /\ cPc' = [cPc EXCEPT ![c] = "idle"]
    /\ cRet' = [cRet EXCEPT ![c] = [op |-> "Close", value |-> NoErr]]
    /\ closeReturned' = closeReturned + 1
    /\ UNCHANGED <<cfgFile, mCfg, mPc, mIdx, pipelines, closeCalls, effective,
                   mgrRest>>

\* Manager.Close: the loop over m.pipelines, m.pipelines = nil, the
\* deferred Unlock and return nil.  A nil map is the empty map.
CloseBody(c) ==
    /\ cPc[c] = "Close"
    /\ pools' = ClosePools(pools, PoolsOf(pipelines))
    /\ pipelines' = <<>>
    /\ mu' = [mu EXCEPT !.writer = 0]
    /\ cPc' = [cPc EXCEPT ![c] = "idle"]
    /\ cRet' = [cRet EXCEPT ![c] = [op |-> "Close", value |-> NoErr]]
    /\ closeReturned' = closeReturned + 1
    /\ UNCHANGED <<cfgFile, mCfg, mPc, mIdx, closeCalls, effective, mgrRest>>

\* Manager.List and Manager.Get: m.mu.RLock()
RLock(c) ==
    /\ mPc = "ready"
    /\ cPc[c] = "idle"
    /\ mu.writer = 0
    /\ mu' = [mu EXCEPT !.readers = @ \cup {c}]
    /\ \E op \in {"List", "Get"} : cPc' = [cPc EXCEPT ![c] = op]
    /\ UNCHANGED <<cfgFile, mCfg, mPc, mIdx, pipelines, pools, cRet,
                   closeCalls, closeReturned, effective, mgrRest>>

\* Manager.List: the loop over m.pipelines, RUnlock and return.
ListBody(c) ==
    /\ cPc[c] = "List"
    /\ cRet' = [cRet EXCEPT ![c] = [op |-> "List",
                                    value |-> DOMAIN pipelines]]
    /\ mu' = [mu EXCEPT !.readers = @ \ {c}]
    /\ cPc' = [cPc EXCEPT ![c] = "idle"]
    /\ UNCHANGED <<cfgFile, mCfg, mPc, mIdx, pipelines, pools, closeCalls,
                   closeReturned, effective, mgrRest>>

\* Manager.Get: the map lookup, RUnlock and return.
GetBody(c) ==
    /\ cPc[c] = "Get"
    /\ \E name \in ConfigNames :
          cRet' = [cRet EXCEPT ![c] =
                      [op |-> "Get",
                       value |-> IF name \in DOMAIN pipelines
                                 THEN {name} ELSE {},
                       err |-> IF name \in DOMAIN pipelines
                               THEN NoErr ELSE ErrPipelineNotFound]]
    /\ mu' = [mu EXCEPT !.readers = @ \ {c}]
    /\ cPc' = [cPc EXCEPT ![c] = "idle"]
    /\ UNCHANGED <<cfgFile, mCfg, mPc, mIdx, pipelines, pools, closeCalls,
                   closeReturned, effective, mgrRest>>

\* Orchestrator.Execute / ExecuteStream on a pipeline of the manager: the
\* topN and the token budget the request runs with.
ExecuteLimits ==
    /\ mPc = "ready"
    /\ \E name \in DOMAIN pipelines, reqTopN \in RequestTopNs :
          effective' =
              <<[name |-> name,
                 reqTopN |-> reqTopN,
                 topN |-> IF reqTopN > 0 THEN reqTopN
                          ELSE pipelines[name].topN,
                 tokenBudget |-> pipelines[name].tokenBudget]>>
    /\ UNCHANGED <<cfgFile, mCfg, mPc, mIdx, pipelines, pools, mu, cPc, cRet,
                   closeCalls, closeReturned, mgrRest>>

\* main up to the manager.
NewManager ==
    \/ LoadConfig
    \/ LoadRequiredKeys
    \/ CreatePipeline
    \/ NewManagerReturn

MgrNext ==
    \/ NewManager
    \/ \E c \in Callers :
          CloseLock(c) \/ CloseBody(c) \/ RLock(c) \/ ListBody(c) \/ GetBody(c)

MgrStart ==
    /\ cfgFile \in ManagerFiles
    /\ MgrInit
    /\ StreamIdle
    /\ IndexIdle
    /\ FilterIdle
    /\ QueryIdle
    /\ PackIdle
    /\ FuseIdle
    /\ MoreIdle

ManagerSpec == MgrStart /\ [][MgrNext]_vars

ConfigNext == NewManager \/ ExecuteLimits

ConfigStart ==
    /\ cfgFile \in ConfigFiles
    /\ MgrInit
    /\ StreamIdle
    /\ IndexIdle
    /\ FilterIdle
    /\ QueryIdle
    /\ PackIdle
    /\ FuseIdle
    /\ MoreIdle

ConfigSpec == ConfigStart /\ [][ConfigNext]_vars

\* None of the sub-models above is running.
BaseIdle ==
    /\ StreamIdle
    /\ IndexIdle
    /\ FilterIdle
    /\ QueryIdle
    /\ PackIdle
    /\ FuseIdle
    /\ MgrIdle

(***************************************************************************)
(* The API key of one provider (OpenAI) that a pipeline uses: the cascade  *)
(* of config.applyDefaults, APIKeyLoader.loadKey as NewManagerWithLogger   *)
(* calls it, and the factory.                                              *)
(***************************************************************************)
PipelineKeyFile == "pipeline.key"
DefaultsKeyFile == "defaults.key"
GlobalKeyFile == "global.key"
DefaultOpenAIKeyFile == "~/.openai-api-key"
EnvKey == "key from OPENAI_API_KEY"
ErrKeyFileNotFound == "API key file not found"
ErrKeyNotFound == "API key not found"
ErrKeyNotConfigured == "OpenAI API key not configured"

KeyFiles ==
    {PipelineKeyFile, DefaultsKeyFile, GlobalKeyFile, DefaultOpenAIKeyFile}

\* The trimmed content of a key file.
KeyInFile(path) == <<"key in", path>>

\* The key paths of the configuration file, the files that exist and the
\* environment variable.
KeyWorlds ==
    [pipelinePath : {"", PipelineKeyFile},
     defaultsPath : {"", DefaultsKeyFile},
     globalPath : {"", GlobalKeyFile},
     files : SUBSET KeyFiles,
     env : {<<>>, <<EnvKey>>}]

KeyResult(key, err) == [key |-> key, err |-> err]

\* applyDefaults: pipeline -> defaults -> global.
CascadeKeyPath(w) ==
    IF w.pipelinePath # "" THEN w.pipelinePath
    ELSE IF w.defaultsPath # "" THEN w.defaultsPath
    ELSE w.globalPath

\* readKeyFile; the keys in the files are not empty.
readKeyFile(path, w) ==
    IF path \notin w.files THEN KeyResult(<<>>, ErrKeyFileNotFound)
    ELSE KeyResult(KeyInFile(path), NoErr)

\* APIKeyLoader.loadKey
loadKey(configPath, w) ==
    IF configPath # "" THEN readKeyFile(configPath, w)
    ELSE IF w.env # <<>> THEN KeyResult(w.env, NoErr)
    ELSE IF DefaultOpenAIKeyFile \notin w.files
    THEN KeyResult(<<>>, ErrKeyNotFound)
    ELSE readKeyFile(DefaultOpenAIKeyFile, w)

keyRest == <<baseVars, bmVars, byVars, shVars>>

KeyInit ==
    /\ keyPc = "config"
    /\ keyWorld \in KeyWorlds
    /\ keyPipeline = ""
    /\ keyLoaded = <<>>
    /\ keyProvider = <<>>

\* config.Load: applyDefaults fills Pipeline.APIKeys.
KeyApplyDefaults ==
    /\ keyPc = "config"
    /\ keyPipeline' = CascadeKeyPath(keyWorld)
    /\ keyPc' = "keys"
    /\ UNCHANGED <<keyWorld, keyLoaded, keyProvider, keyRest>>

\* NewManagerWithLogger: config.NewAPIKeyLoader(cfg.Config.APIKeys) and
\* LoadRequiredKeys(cfg.Config.Pipelines).
KeyLoadRequired ==
    /\ keyPc = "keys"
    /\ keyLoaded' = loadKey(keyWorld.globalPath, keyWorld)
    /\ keyPc' = IF keyLoaded'.err = NoErr THEN "provider" ELSE "failed"
    /\ UNCHANGED <<keyWorld, keyPipeline, keyProvider, keyRest>>

\* factory.NewEmbeddingProvider / NewCompletionProvider, case "openai".
KeyNewProvider ==
    /\ keyPc = "provider"
    /\ keyProvider' = IF keyLoaded.key = <<>>
                      THEN KeyResult(<<>>, ErrKeyNotConfigured)
                      ELSE KeyResult(keyLoaded.key, NoErr)
    /\ keyPc' = "done"
    /\ UNCHANGED <<keyWorld, keyPipeline, keyLoaded, keyRest>>

KeyNext == KeyApplyDefaults \/ KeyLoadRequired \/ KeyNewProvider

KeyStart ==
    /\ KeyInit
    /\ BaseIdle
    /\ BmIdle
    /\ ByIdle
    /\ ShIdle

KeySpec == KeyStart /\ [][KeyNext]_vars

(***************************************************************************)
(* bm25.Index on its own: AddDocument, Clear, Size and Search.  A content  *)
(* is its sequence of lower-case words.  Queries have one term, so that    *)
(* IDF(df) > 0 is a factor common to all documents and the order of the    *)
(* scores is the order of the term-frequency part, an exact fraction.      *)
(***************************************************************************)
MaxAdds == 3

StopWords == {"the"}

BmIds == {"1", "2", "3"}

BmContents ==
    { <<"alpha">>, <<"alpha", "beta">>, <<"the", "alpha", "alpha">>,
      <<"beta">> }

BmQueries == { <<"alpha">>, <<"beta">>, <<"the">> }

BmTopNs == {1, 3}

\* Tokenizer.Tokenize on lower-case words of two letters or more.
Tokenize(text) == SelectSeq(text, LAMBDA w : w \notin StopWords)

\* Tokenizer.TokenFrequencies
TokenFrequencies(text) ==
    LET tokens == Tokenize(text)
    IN [t \in {tokens[i] : i \in 1..Len(tokens)} |->
           Cardinality({i \in 1..Len(tokens) : tokens[i] = t})]

\* m[k] of a Go map[string]int.
MapGet(m, k) == IF k \in DOMAIN m THEN m[k] ELSE 0

\* bm25.Document
Document(id, content) ==
    [ID |-> id, Content |-> content, Length |-> Len(Tokenize(content)),
     TermFreqs |-> TokenFrequencies(content)]

\* BM25.Score without its factor IDF(docFreq), for K1 = 1.2 and B = 0.75:
\* tf * 2.2 / (tf + 1.2 * (0.25 + 0.75 * docLen / (totalLen / docCount))).
TfScore(tf, docLen, docCount, totalLen) ==
    Frac(22 * tf * totalLen, 10 * tf * totalLen + 3 * totalLen
                              + 9 * docLen * docCount)

\* Index.Search: the documents with a positive score, by id.
Scored(docs, docFreqs, totalDocs, totalLen, term) ==
    LET hit == {id \in DOMAIN docs :
                   /\ MapGet(docs[id].TermFreqs, term) > 0
                   /\ MapGet(docFreqs, term) > 0}
    IN [id \in hit |->
           [ID |-> id, Content |-> docs[id].Content,
            Score |-> TfScore(docs[id].TermFreqs[term], docs[id].Length,
                              totalDocs, totalLen)]]

\* Index.Search: the lists it can return.  The documents are collected by
\* ranging over the map idx.docs and ordered with sort.Slice.
BmSearch(docs, docFreqs, totalDocs, totalLen, query, n) ==
    IF totalDocs = 0 \/ Len(Tokenize(query)) = 0 THEN {<<>>}
    ELSE {SubSeq(l, 1, min(n, Len(l))) :
             l \in SortedByScore(Scored(docs, docFreqs, totalDocs, totalLen,
                                         Tokenize(query)[1]))}

bmRest == <<baseVars, keyVars, byVars, shVars>>

BmInit ==
    /\ bmDocs = <<>>
    /\ bmDocFreqs = <<>>
    /\ bmTotalDocs = 0
    /\ bmTotalLen = 0
    /\ bmAdded = <<>>
    /\ bmResults = <<>>

\* Index.AddDocument
BmAddDocument ==
    /\ Len(bmAdded) < MaxAdds
    /\ \E id \in BmIds, content \in BmContents :
          LET doc == Document(id, content)
          IN /\ bmDocFreqs' =
                   [t \in DOMAIN bmDocFreqs \cup DOMAIN doc.TermFreqs |->
                       IF t \in DOMAIN doc.TermFreqs
                       THEN MapGet(bmDocFreqs, t) + 1
                       ELSE bmDocFreqs[t]]
             /\ bmDocs' = MapPut(bmDocs, id, doc)
             /\ bmTotalDocs' = bmTotalDocs + 1
             /\ bmTotalLen' = bmTotalLen + doc.Length
             /\ bmAdded' = Append(bmAdded, id)
    /\ bmResults' = <<>>
    /\ UNCHANGED bmRest

\* Index.Clear
BmClear ==
    /\ bmDocs' = <<>>
    /\ bmDocFreqs' = <<>>
    /\ bmTotalDocs' = 0
    /\ bmTotalLen' = 0
    /\ bmAdded' = <<>>
    /\ bmResults' = <<>>
    /\ UNCHANGED bmRest

\* Index.Search.  bmResults is the value returned by the last call on the
\* index; AddDocument and Clear return nothing.
BmSearchCall ==
    /\ \E query \in BmQueries, n \in BmTopNs :
          \E l \in BmSearch(bmDocs, bmDocFreqs, bmTotalDocs, bmTotalLen,
                             query, n) :
              bmResults' = l
    /\ UNCHANGED <<bmDocs, bmDocFreqs, bmTotalDocs, bmTotalLen, bmAdded,
                   bmRest>>

BmNext == BmAddDocument \/ BmClear \/ BmSearchCall

BmStart ==
    /\ BmInit
    /\ BaseIdle
    /\ KeyIdle
    /\ ByIdle
    /\ ShIdle

Bm25Spec == BmStart /\ [][BmNext]_vars

(***************************************************************************)
(* Pool.FetchDocumentsByIDs: one call on a table source.                   *)
(***************************************************************************)
MaxIds == 2

ByIds == {"1", "2", "3"}

ByContents == {"a", "b"}

ByTables == [IDColumn : {"", "id"}, TextColumn : {"content"}]

ByIdLists == UNION {[1..n -> ByIds] : n \in 0..MaxIds}

\* The rows of the table, by the text of their id column.
ByTableRows == UNION {[S -> ByContents] : S \in SUBSET ByIds}

ErrFetchDocuments == "failed to fetch documents"

ErrScanRow == "failed to scan row"

ErrIteratingRows == "error iterating rows"

\* SELECT id, content FROM table WHERE id::text = ANY($1::text[])
SelectByIds(rows, ids) ==
    [id \in {x \in DOMAIN rows : \E i \in 1..Len(ids) : ids[i] = x} |->
        rows[id]]

byRest == <<baseVars, keyVars, bmVars, shVars>>

ByInit ==
    /\ byPc = "start"
    /\ byTable \in ByTables
    /\ byIds \in ByIdLists
    /\ byQueries = 0
    /\ byOut = <<>>

\* Pool.FetchDocumentsByIDs; a nil map is the empty function.
FetchDocumentsByIDs ==
    /\ byPc = "start"
    /\ byPc' = "done"
    /\ IF Len(byIds) = 0 \/ byTable.IDColumn = ""
       THEN /\ byQueries' = byQueries
            /\ byOut' = [docs |-> <<>>, err |-> NoErr]
       ELSE /\ byQueries' = byQueries + 1
            /\ \/ \E e \in {ErrFetchDocuments, ErrScanRow,
                              ErrIteratingRows} :
                     byOut' = [docs |-> <<>>, err |-> e]
               \/ \E rows \in ByTableRows :
                     byOut' = [docs |-> SelectByIds(rows, byIds),
                               err |-> NoErr]
    /\ UNCHANGED <<byTable, byIds, byRest>>

ByNext == FetchDocumentsByIDs

ByStart ==
    /\ ByInit
    /\ BaseIdle
    /\ KeyIdle
    /\ BmIdle
    /\ ShIdle

ByIdSpec == ByStart /\ [][ByNext]_vars

(***************************************************************************)
(* run() of the server command from the select on: requests being served,  *)
(* the shutdown signal, Server.Shutdown with its 30-second context, an     *)
(* error of ListenAndServe, and the deferred pm.Close().                   *)
(***************************************************************************)
MaxInflight == 3

ShRequests == 1..MaxInflight

ErrServe == "serve error"

ErrDeadlineExceeded == "context deadline exceeded"

Running == {r \in DOMAIN shInflight : shInflight[r] = "running"}

shRest == <<baseVars, keyVars, bmVars, byVars>>

ShInit ==
    /\ shPc = "serving"
    /\ shInflight = [r \in ShRequests |-> "none"]
    /\ shClosed = FALSE
    /\ shErr = NoErr

\* handlePipeline: p, err := s.pipelines.Get(name), then the execution on
\* the pipeline begins.  The listener accepts while the server serves.
ShGet(r) ==
    /\ shPc = "serving"
    /\ shInflight[r] = "none"
    /\ shInflight' = [shInflight EXCEPT ![r] = "running"]
    /\ UNCHANGED <<shPc, shClosed, shErr, shRest>>

\* The handler of request r returns.
ShReturn(r) ==
    /\ shInflight[r] = "running"
    /\ shInflight' = [shInflight EXCEPT ![r] = "finished"]
    /\ UNCHANGED <<shPc, shClosed, shErr, shRest>>

\* case sig := <-shutdownCh: srv.Shutdown(ctx) begins and closes the
\* listener.
ShSignal ==
    /\ shPc = "serving"
    /\ shPc' = "shutdown"
    /\ UNCHANGED <<shInflight, shClosed, shErr, shRest>>

\* case err := <-errCh: return err.  The handlers run in goroutines of
\* their own.
ShServeError ==
    /\ shPc = "serving"
    /\ shPc' = "returning"
    /\ shErr' = ErrServe
    /\ UNCHANGED <<shInflight, shClosed, shRest>>

\* http.Server.Shutdown returns nil once no connection is active.
ShShutdownDone ==
    /\ shPc = "shutdown"
    /\ Running = {}
    /\ shPc' = "returning"
    /\ shErr' = NoErr
    /\ UNCHANGED <<shInflight, shClosed, shRest>>

\* http.Server.Shutdown returns the context's error when the 30 seconds end
\* before the active connections are idle.
ShShutdownTimeout ==
    /\ shPc = "shutdown"
    /\ Running # {}
    /\ shPc' = "returning"
    /\ shErr' = ErrDeadlineExceeded
    /\ UNCHANGED <<shInflight, shClosed, shRest>>

\* The deferred pm.Close() of run: every pipeline's pool is closed.
ShClose ==
    /\ shPc = "returning"
    /\ shPc' = "exited"
    /\ shClosed' = TRUE
    /\ UNCHANGED <<shInflight, shErr, shRest>>

ShNext ==
    \/ \E r \in ShRequests : ShGet(r)
    \/ \E r \in ShRequests : ShReturn(r)
    \/ ShSignal \/ ShServeError \/ ShShutdownDone \/ ShShutdownTimeout
    \/ ShClose

ShStart ==
    /\ ShInit
    /\ BaseIdle
    /\ KeyIdle
    /\ BmIdle
    /\ ByIdle

ShutdownSpec == ShStart /\ [][ShNext]_vars

(***************************************************************************)
(* Properties of the streaming path                                        *)
(***************************************************************************)
IsDone(e) == e.type = "done"
IsError(e) == e.type = "error"
IsChunk(e) == e.type = "chunk"
HasText(c) == c.Content # ""

CountDone == Len(SelectSeq(events, IsDone))
CountError == Len(SelectSeq(events, IsError))

\* The contents of the chunk events, in write order.
ChunkContents == [i \in 1..Len(SelectSeq(events, IsChunk)) |->
                    SelectSeq(events, IsChunk)[i].content]

\* The contents of the chunks the provider produces, in order.
ScriptContents == [i \in 1..Len(pScript) |-> pScript[i].Content]

\* One chunk frame per piece of text of the provider's stream.
TextFrames == [i \in 1..Len(SelectSeq(pScript, HasText)) |->
                 ChunkEvent(SelectSeq(pScript, HasText)[i].Content)]

IsPrefix(s, t) == Len(s) <= Len(t) /\ \A i \in 1..Len(s) : s[i] = t[i]

\* The provider goroutine ended without reporting an error.
ProviderFinishedOK == pPc = "exited" /\ pErr = NoErr

\* The handler ended the response itself, after chunkChan was closed.
ServerEnded == hPc = "returned" /\ hExit = "closed"

\* The request completed normally.
CompletedNormally == ServerEnded /\ ProviderFinishedOK /\ CountError = 0

\* The goroutines of the request have all ended.
AllTerminated ==
    /\ hPc = "returned"
    /\ oPc = "exited"
    /\ pPc \in {"idle", "exited"}

\* C2: when a streaming request fails, the response carries exactly one
\* error event and that event is the last one written.
C2_ErrorEventIsLast ==
    (hPc = "returned" /\ CountError > 0) =>
        /\ CountError = 1
        /\ events[Len(events)].type = "error"

\* C3: a response the server ends after the provider's stream finished
\* without error carries exactly one done event, written last; no response
\* carries more than one done event.
C3_ExactlyOneDoneLast ==
    /\ CountDone <= 1
    /\ (ServerEnded /\ ProviderFinishedOK) =>
          /\ CountDone = 1
          /\ events[Len(events)] = DoneEvent

C3_Witness ==
    /\ ServerEnded
    /\ ProviderFinishedOK
    /\ Len(events) = MaxChunks + 1

\* C4: a request that completes normally yields one chunk frame per piece
\* of text the provider produced, then one done frame, and nothing else.
C4_FramesAreTextThenDone ==
    CompletedNormally => events = TextFrames \o <<DoneEvent>>

\* C5: the contents of the chunk events are, in write order, a prefix of
\* the chunks the provider produced, and the whole sequence when the stream
\* ends normally.
C5_ChunksArePrefix ==
    /\ IsPrefix(ChunkContents, ScriptContents)
    /\ CompletedNormally => ChunkContents = ScriptContents

C5_Witness ==
    /\ CompletedNormally
    /\ Len(pScript) = MaxChunks
    /\ pScript[1].Content # pScript[2].Content
    /\ pScript[1].Content # ""

\* C6: on every exit path of a streaming invocation, chunkChan and errChan
\* are each closed eventually, and each exactly once.
C6_BothChannelsClosedOnce ==
    /\ [](chunkCloses <= 1 /\ errCloses <= 1)
    /\ <>(chunkCloses = 1 /\ errCloses = 1)

C6_Witness ==
    /\ chunkCloses = 1
    /\ errCloses = 1
    /\ ctxDone
    /\ oErr = ErrCanceled

\* C7: once the request context is cancelled, the SSE write loop, the
\* orchestrator goroutine and the provider goroutine all terminate.
C7_CancelTerminatesAll == ctxDone ~> AllTerminated

C7_Witness ==
    /\ ctxDone
    /\ AllTerminated
    /\ hExit = "cancelled"
    /\ oErr = ErrCanceled
    /\ pErr = ErrCanceled

\* C1: the BM25 search of a request scores exactly the documents this
\* request fetched for the source it is processing, whatever the other
\* requests of the pipeline do.
C1_SearchScoresOwnDocuments ==
    \A r \in Requests : rPc[r] = "fuse" => rScored[r] = rDocs[r]

IsPh(tok) == tok.k = "ph"
IsIdent(tok) == tok.k = "ident"

InOp(cond) == ToUpper(cond.Operator) \in {"IN", "NOT IN"}
NullOp(cond) == ToUpper(cond.Operator) \in {"IS NULL", "IS NOT NULL"}

\* The condition with every value replaced by a fixed one of the same
\* kind and length.
SameShapeCond(cond) ==
    [cond EXCEPT !.Value =
        [kind |-> @.kind, items |-> [i \in 1..Len(@.items) |-> "v0"]]]

SameShapeFilter(f) ==
    [f EXCEPT !.Conditions =
        [i \in 1..Len(@) |-> SameShapeCond(@[i])]]

SameShapeConfig(cf) ==
    [cf EXCEPT !.Structured = SameShapeFilter(@)]

\* The conditions that were compiled, config filter first.
CompiledConds ==
    (IF fCfg.isNil \/ fCfg.RawSQL # "" THEN <<>>
     ELSE fCfg.Structured.Conditions)
    \o fReq.Conditions

\* The values of the compiled conditions, in order, one per placeholder.
RECURSIVE BoundValues(_)
BoundValues(conds) ==
    IF Len(conds) = 0 THEN <<>>
    ELSE (IF NullOp(conds[1]) THEN <<>>
          ELSE IF InOp(conds[1])
               THEN [i \in 1..Len(conds[1].Value.items) |->
                       Scalar(conds[1].Value.items[i])]
               ELSE <<conds[1].Value>>)
         \o BoundValues(Tail(conds))

\* The value the condition around the t-th token of the clause binds to
\* the placeholder at t.
ValueAt(sql, t) ==
    LET j == Len(SelectSeq(SubSeq(sql, 1, t), IsIdent))
        lastIdent == CHOOSE u \in 1..t :
                        /\ IsIdent(sql[u])
                        /\ \A w \in (u + 1)..t : ~IsIdent(sql[w])
        m == Len(SelectSeq(SubSeq(sql, lastIdent, t), IsPh))
    IN IF InOp(CompiledConds[j])
       THEN Scalar(CompiledConds[j].Value.items[m])
       ELSE CompiledConds[j].Value

\* C8: the SQL text depends on columns, operators, logic and list lengths
\* only: replacing every value by another one leaves the text unchanged;
\* no piece of the text is a value; the values are the arguments, in the
\* order of their placeholders.
C8_SqlTextIndependentOfValues ==
    fPc \in {"vector", "fetch"} =>
        /\ fOut.sql = buildFilterClause(SameShapeConfig(fCfg),
                                        SameShapeFilter(fReq), fStart).sql
        /\ \A t \in 1..Len(fOut.sql) :
              fOut.sql[t].k # "lit" /\ fOut.sql[t].s \notin ValueStrings
        /\ fOut.err = NoErr => fOut.args = BoundValues(CompiledConds)

C8_Witness ==
    /\ fPc = "vector"
    /\ fOut.err = NoErr
    /\ ~fCfg.isNil
    /\ Len(fOut.args) >= 4
    /\ \E i \in 1..Len(fReq.Conditions) :
          fReq.Conditions[i] = Cond("product", "=", Scalar("v1"))
    /\ \E i \in 1..Len(fReq.Conditions) :
          fReq.Conditions[i] = Cond("product", "in", List(<<"v1", "v2">>))

\* C10: the placeholders of the clause, read left to right, are s, s+1,
\* ... without gap or repeat, whatever the config filter is; there are as
\* many arguments as placeholders; the i-th argument is the value bound to
\* placeholder s+i-1.
C10_PlaceholdersNumberedFromStart ==
    (fPc \in {"vector", "fetch"} /\ fOut.err = NoErr) =>
        LET phs == SelectSeq(fOut.sql, IsPh) IN
        /\ \A i \in 1..Len(phs) : phs[i].n = fStart + i - 1
        /\ Len(fOut.args) = Len(phs)
        /\ \A t \in 1..Len(fOut.sql) :
              IsPh(fOut.sql[t]) =>
                 /\ fOut.sql[t].n - fStart + 1 \in 1..Len(fOut.args)
                 /\ fOut.args[fOut.sql[t].n - fStart + 1]
                       = ValueAt(fOut.sql, t)
                 /\ fArgs[fOut.sql[t].n] = ValueAt(fOut.sql, t)

C10_Witness ==
    /\ fPc = "vector"
    /\ fOut.err = NoErr
    /\ fCfg = ConfigFilter("", Filter(<<Cond("tenant", "in",
                                            List(<<"v2", "v1">>))>>, ""))
    /\ Len(fReq.Conditions) = MaxConds
    /\ Len(fOut.args) >= 4

C10_WitnessRaw ==
    /\ fPc = "fetch"
    /\ fOut.err = NoErr
    /\ fCfg.RawSQL # ""
    /\ Len(fOut.args) >= 2

(***************************************************************************)
(* Properties of the query handler                                         *)
(***************************************************************************)
\* The request is a well-formed query of an existing pipeline whose filter
\* uses an operator outside the whitelist.
UnsupportedOperatorRequest ==
    /\ qPc # "idle"
    /\ Rejection(qReq) = NoResponse
    /\ \E i \in 1..Len(qReq.filter.Conditions) :
          ValidateOperator(qReq.filter.Conditions[i].Operator) # NoErr

\* C9: a query request whose filter uses an operator outside the
\* whitelist is answered with status 400 and code INVALID_REQUEST.
C9_UnsupportedOperatorIs400 ==
    (UnsupportedOperatorRequest /\ qResp # NoResponse) =>
        /\ qResp.status = 400
        /\ qResp.code = "INVALID_REQUEST"

(***************************************************************************)
(* Properties of deduplication and context packing                         *)
(***************************************************************************)
\* ceil(len / 4)
CeilTokens(content) ==
    (Len(content) + CharsPerToken - 1) \div CharsPerToken

RECURSIVE SumCeilTokens(_)
SumCeilTokens(docs) ==
    IF docs = <<>> THEN 0
    ELSE CeilTokens(Head(docs).Content) + SumCeilTokens(Tail(docs))

\* C11: the context documents handed to the completion provider, a
\* truncated last document with its "..." included, have a sum of
\* ceil(length / 4) of at most the token budget.
C11_ContextWithinBudget ==
    packPc = "packed" => SumCeilTokens(contextDocs) <= tokenBudget

\* The indices of the results that are the first with their key.
FirstOccurrences(results) ==
    {i \in 1..Len(results) :
        \A j \in 1..(i - 1) : Key(results[j]) # Key(results[i])}

KthSmallest(S, k) == CHOOSE x \in S : Cardinality({y \in S : y < x}) = k - 1

Deduplicated == packPc \in {"noDocuments", "deduplicated", "packed"}

\* C14: for topN >= 1 the output of deduplication has no two results with
\* the same key, at most topN elements, and is the first
\* min(topN, number of distinct keys) first occurrences of the input, in
\* input order.
C14_DedupIsPrefixOfFirstOccurrences ==
    Deduplicated /\ topN >= 1 =>
        LET first == FirstOccurrences(poolResults)
            n == min(topN, Cardinality(first))
        IN
        /\ Len(uniqueResults) = n
        /\ Len(uniqueResults) <= topN
        /\ \A k \in 1..n :
              uniqueResults[k] = poolResults[KthSmallest(first, k)]
        /\ \A a, b \in 1..Len(uniqueResults) :
              a # b => Key(uniqueResults[a]) # Key(uniqueResults[b])

\* A duplicate was dropped and the limit cut the list.
C14_Witness ==
    /\ Deduplicated
    /\ Len(poolResults) = MaxResults
    /\ Len(uniqueResults) < Cardinality(FirstOccurrences(poolResults))

\* A result was dropped because an earlier result has its key: an id that
\* equals the content of a result without id.
C14_WitnessDuplicate ==
    /\ Deduplicated
    /\ Len(uniqueResults) < topN
    /\ Len(uniqueResults) < Len(poolResults)
    /\ \E i, j \in 1..Len(poolResults) :
          /\ i < j
          /\ poolResults[i].ID = <<>>
          /\ poolResults[j].ID = poolResults[i].Content

(***************************************************************************)
(* Properties of the fusion                                                *)
(***************************************************************************)
\* The 1-indexed rank of the row's content in a list; 0 when absent.
RankOf(list, row) ==
    IF \E i \in 1..Len(list) : list[i].Content = row.content
    THEN CHOOSE i \in 1..Len(list) : list[i].Content = row.content
    ELSE 0

\* C12: a document that both the vector search and the BM25 search of a
\* source return is one entry of the fused list, and its fused score is
\* the sum of 1/(k + rank) over both lists.
C12_DocumentInBothListsFusedOnce ==
    fusePc = "fused" =>
        \A row \in TableRows :
           RankOf(vectorResults, row) > 0 /\ RankOf(bm25Results, row) > 0 =>
              /\ Cardinality({i \in 1..Len(rrfResults) :
                                 rrfResults[i].Content = row.content}) = 1
              /\ \A i \in 1..Len(rrfResults) :
                    rrfResults[i].Content = row.content =>
                       FracEqual(rrfResults[i].Score,
                                 FracAdd(Reciprocal(DefaultRRFConstant,
                                            RankOf(vectorResults, row)),
                                         Reciprocal(DefaultRRFConstant,
                                            RankOf(bm25Results, row))))

\* C13: for the same two ranked lists and the same topN the fusion returns
\* the same documents in the same order, whatever it returned here.
C13_FusionIsDeterministic ==
    fusePc = "fused" =>
        \A other \in HybridSearch(vectorResults, bm25Results, fuseTopN) :
           other = hybridResults

(***************************************************************************)
(* Properties of the order of calls in Execute and ExecuteStream           *)
(***************************************************************************)
\* C15: a failing vector search or document fetch on a source does not end
\* the request: the loop goes on to the next source and keeps the pool;
\* the request fails with 'no documents found' only when the pool is empty
\* after all sources, and never with the database error.
C15_SourceFailureIsDowngraded ==
    /\ [](xErr \in {NoErr, ErrEmbedding, ErrNoDocuments, ErrCompletion})
    /\ [](xErr = ErrNoDocuments => xResults = 0 /\ xSrc > nSources)
    /\ [][xPc = "search" /\ xSrc <= nSources =>
             /\ xPc' = "search"
             /\ xSrc' = xSrc + 1
             /\ xResults' >= xResults
             /\ xErr' = NoErr]_<<xPc, xSrc, xResults, xErr>>

\* The vector search of every source failed (the request's filter does not
\* compile), every source was visited and the request failed with 'no
\* documents found'.
C15_Witness ==
    /\ qPc = "responded"
    /\ SearchOutcomes(qReq.filter) = {"vectorFailed"}
    /\ nSources = MaxSources
    /\ xSrc = nSources + 1
    /\ qResp.message = ErrNoDocuments

\* C16: no source is searched before the embedding call returned without
\* error; the completion provider is called at most once, after every
\* source was searched and the context was packed; after a failed embedding
\* call no source is searched and the completion provider is not called.
C16_EmbedThenSearchThenComplete ==
    /\ [](xPc \in {"idle", "embed"} => xSrc = 1)
    /\ [](oPc \in {"idle", "embed"} => oSrc = 1)
    /\ [](xErr = ErrEmbedding => xSrc = 1 /\ xPc = "returned")
    /\ [](oErr = ErrEmbedding => oSrc = 1 /\ pPc = "idle")
    /\ [](xPc = "complete" => xSrc > nSources)
    /\ [](pPc # "idle" =>
            /\ oSrc > nSources
            /\ oPc \notin {"idle", "embed", "search", "complete"})
    /\ [][/\ xPc = "returned" => xPc' = "returned"
          /\ xPc' = "complete" => xPc \in {"search", "complete"}
          /\ pPc # "idle" => pPc' # "idle"
          /\ pPc' = "request" /\ pPc # "request" =>
                pPc = "idle" /\ oPc = "complete"]_vars

\* Execute called the completion provider after searching every source.
C16_Witness ==
    /\ xPc = "returned"
    /\ xErr = NoErr
    /\ nSources = MaxSources
    /\ xSrc = nSources + 1

\* The streaming path called the completion provider.
C16_WitnessStream ==
    /\ pPc = "request"
    /\ nSources = MaxSources

\* C17: when the pool is empty after the loop over the sources, Execute
\* returns 'no documents found for query', ExecuteStream puts that error
\* as the only value on errChan and sends no chunk, and the completion
\* provider is not called.
C17_EmptyPoolIsNoDocuments ==
    /\ xPc \in {"complete", "returned"} /\ xErr # ErrEmbedding
          /\ xResults = 0 =>
             xPc = "returned" /\ xErr = ErrNoDocuments
    /\ oPc \notin {"idle", "embed", "search"} /\ oErr # ErrEmbedding
          /\ allResults = 0 =>
             /\ oErr = ErrNoDocuments
             /\ pPc = "idle"
             /\ errChan \in {<<>>, <<ErrNoDocuments>>}
             /\ oPc = "sendErr" => errChan = <<>>
             /\ \A i \in 1..Len(events) :
                   /\ events[i].type # "chunk"
                   /\ events[i].type = "error" =>
                         events[i].error = ErrNoDocuments

\* A pipeline without table sources: the handler received 'no documents
\* found' from errChan.
C17_Witness ==
    /\ nSources = 0
    /\ \E i \in 1..Len(events) : events[i].error = ErrNoDocuments

\* Every source of a non-streaming request failed or had no hit.
C17_WitnessExecute ==
    /\ nSources = MaxSources
    /\ xPc = "returned"
    /\ xErr = ErrNoDocuments

(***************************************************************************)
(* Properties of the pipeline manager                                      *)
(***************************************************************************)
\* C18: when NewManagerWithLogger returns the error of a failed pipeline,
\* every pool opened during the construction, of the earlier pipelines and
\* of the failing one, has been closed.
C18_FailedConstructionClosesPools ==
    mPc = "failed" =>
        \A i \in 1..MaxPipelines : pools[i].opened => pools[i].closes >= 1

\* The second pipeline failed after its pool was opened, the first one was
\* complete.
C18_Witness ==
    /\ mPc = "failed"
    /\ mIdx = 2
    /\ pools[1].opened
    /\ pools[2].opened

\* C19: Close may be called any number of times, also while List and Get
\* run: the first call closes every pipeline's pool exactly once, later
\* calls close nothing, and every call returns nil.
C19_CloseIsIdempotent ==
    /\ [](mPc = "ready" =>
            /\ \A i \in 1..MaxPipelines : pools[i].closes <= 1
            /\ closeReturned >= 1 =>
                  \A i \in 1..MaxPipelines :
                      pools[i].opened => pools[i].closes = 1
            /\ \A c \in Callers :
                  cRet[c].op = "Close" => cRet[c].value = NoErr)
    /\ [][mPc = "ready" /\ closeReturned >= 1 => pools' = pools]_vars

\* Close returned twice while another caller was inside List or Get.
C19_Witness ==
    /\ mPc = "ready"
    /\ closeReturned = MaxCloseCalls
    /\ \E i \in 1..MaxPipelines : pools[i].opened
    /\ \E c \in Callers : cPc[c] \in {"List", "Get"}

\* The values the sentence about the limits names.
KeySets(key) == key # {} /\ \A v \in key : v > 0

ClaimedLimit(pipelineKey, defaultsKey, hard) ==
    IF KeySets(pipelineKey) THEN CHOOSE v \in pipelineKey : TRUE
    ELSE IF KeySets(defaultsKey) THEN CHOOSE v \in defaultsKey : TRUE
    ELSE hard

FileEntry(name) ==
    CHOOSE e \in {cfgFile.pipelines[i] : i \in 1..Len(cfgFile.pipelines)} :
        e.name = name

\* C20: a request runs with its own top_n when that is positive, otherwise
\* with the pipeline's top_n, otherwise with the one of the defaults
\* section, otherwise with 5; its token budget is the pipeline's, otherwise
\* the one of the defaults section, otherwise 4000.
C20_LimitsResolved ==
    \A k \in 1..Len(effective) :
        /\ effective[k].topN =
              IF effective[k].reqTopN > 0 THEN effective[k].reqTopN
              ELSE ClaimedLimit(FileEntry(effective[k].name).top_n,
                                cfgFile.defaults.top_n, DefaultTopN)
        /\ effective[k].tokenBudget =
              ClaimedLimit(FileEntry(effective[k].name).token_budget,
                           cfgFile.defaults.token_budget, DefaultTokenBudget)

(***************************************************************************)
(* Properties of the API key resolution                                    *)
(***************************************************************************)
\* The first source in the order of the sentence: the key file of the
\* pipeline, of the defaults section, of the global section, the
\* environment variable, the dotfile.
ClaimedKey(w) ==
    IF w.pipelinePath # "" THEN readKeyFile(w.pipelinePath, w)
    ELSE IF w.defaultsPath # "" THEN readKeyFile(w.defaultsPath, w)
    ELSE IF w.globalPath # "" THEN readKeyFile(w.globalPath, w)
    ELSE IF w.env # <<>> THEN KeyResult(w.env, NoErr)
    ELSE readKeyFile(DefaultOpenAIKeyFile, w)

\* C21: the key a provider of the pipeline runs with is the first one in
\* the order pipeline key file, defaults key file, global key file,
\* environment variable, dotfile; and the pipeline is built whenever that
\* source holds a key.
C21_KeyByPriority ==
    /\ keyPc = "done" => keyProvider.key = ClaimedKey(keyWorld).key
    /\ keyPc = "failed" => ClaimedKey(keyWorld).err # NoErr

(***************************************************************************)
(* Properties of the BM25 index                                            *)
(***************************************************************************)
\* Position of the only AddDocument call for id, 0 when there is none or
\* more than one.
AddedAt(added, id) ==
    LET at == {i \in 1..Len(added) : added[i] = id}
    IN IF Cardinality(at) = 1 THEN CHOOSE i \in at : TRUE ELSE 0

\* C22: Search returns its results in descending score order, and two
\* documents with equal scores in the order in which they were added.
C22_SearchSortedTiesByInsertion ==
    LET l == bmResults
    IN \A i, j \in 1..Len(l) :
          i < j =>
             /\ ~FracGreater(l[j].Score, l[i].Score)
             /\ /\ FracEqual(l[i].Score, l[j].Score)
                /\ AddedAt(bmAdded, l[i].ID) > 0
                /\ AddedAt(bmAdded, l[j].ID) > 0
                => AddedAt(bmAdded, l[i].ID)
                      < AddedAt(bmAdded, l[j].ID)

RECURSIVE SumLengths(_, _)
SumLengths(docs, ids) ==
    IF ids = {} THEN 0
    ELSE LET id == CHOOSE x \in ids : TRUE
         IN docs[id].Length + SumLengths(docs, ids \ {id})

\* C30: after any sequence of AddDocument and Clear, Size() is the number
\* of stored documents, totalLen the sum of their lengths and each term's
\* document frequency the number of stored documents containing it.
C30_CorpusStatisticsMatchDocs ==
    /\ bmTotalDocs = Cardinality(DOMAIN bmDocs)
    /\ bmTotalLen = SumLengths(bmDocs, DOMAIN bmDocs)
    /\ \A t \in {"alpha", "beta", "the"} :
          MapGet(bmDocFreqs, t) =
              Cardinality({id \in DOMAIN bmDocs :
                              MapGet(bmDocs[id].TermFreqs, t) > 0})

(***************************************************************************)
(* Properties of the id-keyed lookup                                       *)
(***************************************************************************)
\* C23: an id-keyed lookup on a source without an id column sends no query
\* and returns an error, not an ordinary empty result.
C23_NoIdColumnIsRefused ==
    byPc = "done" /\ byTable.IDColumn = "" /\ Len(byIds) > 0
        => byQueries = 0 /\ byOut.err # NoErr

(***************************************************************************)
(* Properties of the filter logic                                          *)
(***************************************************************************)
\* A filter whose logic is neither empty nor, in upper case, AND or OR.
InvalidLogic(filter) ==
    /\ ~filter.isNil
    /\ filter.Logic # ""
    /\ ToUpper(filter.Logic) \notin {"AND", "OR"}

\* C25: compiling a request filter whose logic is not AND or OR returns an
\* error, whatever its list of conditions, the empty list included.
C25_InvalidLogicIsRejected ==
    fPc # "input" /\ InvalidLogic(fReq) => fOut.err # NoErr

(***************************************************************************)
(* Properties of the request handler                                       *)
(***************************************************************************)
\* A POST to an existing pipeline whose body does not decode or whose
\* query is empty.
BadBody(req) ==
    /\ req.method = "POST"
    /\ req.name \in PipelineNames
    /\ ~req.bodyValid \/ req.query = ""

\* C24: a POST to an existing pipeline with an invalid body or an empty
\* query is answered 400 INVALID_REQUEST, and neither Execute nor the
\* streaming handler, its orchestrator goroutine and the provider ever
\* start for it, so no embedding, database or completion call is made.
C24_BadBodyIs400WithoutCalls ==
    qPc # "idle" /\ BadBody(qReq) =>
        /\ xPc = "idle" /\ hPc = "idle" /\ oPc = "idle" /\ pPc = "idle"
        /\ qPc \in {"recv", "responded"}
        /\ qPc = "responded" =>
               qResp.status = 400 /\ qResp.code = "INVALID_REQUEST"

C24_Witness ==
    /\ qPc = "responded"
    /\ BadBody(qReq)
    /\ qReq.bodyValid
    /\ qReq.query = ""
    /\ qResp = Response(400, "INVALID_REQUEST", "query is required")

\* The errors of a request that fails before any answer text exists.
EarlyErrors == {ErrEmbedding, ErrNoDocuments}

\* C26: a request that fails before any answer text exists is answered with
\* status 500 and code EXECUTION_ERROR, with and without stream.
C26_EarlyFailureIs500 ==
    /\ qPc = "responded" /\ xErr \in EarlyErrors =>
           qResp.status = 500 /\ qResp.code = "EXECUTION_ERROR"
    /\ qPc = "stream" /\ hExit = "closed" /\ oErr \in EarlyErrors =>
           qResp.status = 500 /\ qResp.code = "EXECUTION_ERROR"

(***************************************************************************)
(* Properties of the order in which the channels are closed                *)
(***************************************************************************)
\* C28: when the consumer sees chunkChan closed, errChan is closed already,
\* and the receive on errChan the handler then makes can be taken at once
\* and yields the error of the invocation, nil when there was none.
C28_ErrChanClosedBeforeChunkChan ==
    /\ chunkCloses > 0 => errCloses > 0
    /\ hPc = "readErr" =>
          /\ CanRecv(errChan, errCloses)
          /\ RecvVal(errChan) = oErr

C28_Witness ==
    /\ hPc = "readErr"
    /\ errCloses = 1
    /\ oErr = ErrNoDocuments
    /\ errChan = <<ErrNoDocuments>>

C28_WitnessNil ==
    /\ hPc = "readErr"
    /\ errCloses = 1
    /\ oErr = NoErr
    /\ errChan = <<>>

(***************************************************************************)
(* Properties of the final result list                                     *)
(***************************************************************************)
\* C27: no two entries of the final result list of a request have the same
\* content; a document found by the vector search and by the BM25 search
\* appears once.
C27_FinalResultsHaveDistinctContent ==
    packPc \in {"deduplicated", "packed"} =>
        \A i, j \in 1..Len(uniqueResults) :
            i # j => uniqueResults[i].Content # uniqueResults[j].Content

(***************************************************************************)
(* Properties of the shutdown                                              *)
(***************************************************************************)
\* C29: the pools are never closed while a request that obtained its
\* pipeline through Get is still executing, however the process stops
\* serving.
C29_NoCloseUnderRunningRequest ==
    shClosed => Running = {}

====
